---------------------------- MODULE Spec2Model ----------------------------
(***************************************************************************)
(* Model of the cloudlet compute driver (src/compute/cloudlet_driver.py):  *)
(* the two session registries of CloudletDriver, the operations that       *)
(* register, consume and tear down sessions (spawn, create_overlay_vm,     *)
(* perform_vmhandoff, _destroy), and the handoff send / receive engines    *)
(* that drive an external transfer worker through a polling loop.          *)
(*                                                                         *)
(* Every invocation of a driver method is a "call" running in its own      *)
(* green thread.  A call yields only where the code blocks (image service, *)
(* cache fetch, hypervisor, the 0.5 s poll timer), so each action below is *)
(* the code between two such points.  The transfer worker, the hypervisor  *)
(* and the image service are external: the worker is a pair of actions     *)
(* (write output, exit), the others are nondeterministic outcomes.         *)
(***************************************************************************)
EXTENDS Integers, Sequences, FiniteSets, TLC

(***************************************************************************)
(* Bounds of the model.                                                    *)
(***************************************************************************)
\* number of driver calls that can be in flight at once
MaxCalls == 2
\* number of session objects (VM_Overlay, SynthesizedVM) ever constructed
MaxSessions == 2

\* os.read(proc.stdout.fileno(), 1024*100)
ReadMax == 102400

VMs == {"vm1"}
Calls == 1..MaxCalls
Sessions == 1..MaxSessions
\* dict.get(key, None) returning None
None == 0

(***************************************************************************)
(* Text: a Python str is a sequence of one-character strings.              *)
(***************************************************************************)
TAB == "\t"
NL == "\n"

LowerChar(ch) ==
    CASE ch = "O" -> "o" [] ch = "P" -> "p" [] ch = "E" -> "e"
      [] ch = "N" -> "n" [] ch = "S" -> "s" [] ch = "T" -> "t"
      [] ch = "A" -> "a" [] ch = "C" -> "c" [] ch = "K" -> "k"
      [] ch = "B" -> "b" [] ch = "D" -> "d" [] ch = "Y" -> "y"
      [] OTHER -> ch

\* a comparison that forgets the case folding
lower_Identity(s) == s

\* str.lower()
lower(s) == [i \in 1..Len(s) |-> LowerChar(s[i])]

\* str.split(sep): the fields between the occurrences of sep, at least one
\* (bound(n) is the place of the n-th occurrence of sep, 0 before the first
\* and Len(s) + 1 after the last)
split(s, sep) ==
    LET seps == {k \in 1..Len(s) : s[k] = sep}
        bound(n) ==
            IF n = 0 THEN 0
            ELSE IF n > Cardinality(seps) THEN Len(s) + 1
            ELSE CHOOSE k \in seps : Cardinality({j \in seps : j <= k}) = n
    IN  [n \in 1..(Cardinality(seps) + 1) |->
            SubSeq(s, bound(n - 1) + 1, bound(n) - 1)]

\* int(str): raises ValueError unless the text is a decimal number
IsNumber(s) == Len(s) > 0 /\ \A i \in 1..Len(s) : s[i] \in {"0", "1", "2"}

\* the sentinel of line 908
openstack == <<"o", "p", "e", "n", "s", "t", "a", "c", "k">>

\* "\t".join(fields), the way the worker prints its status record
RECURSIVE join(_)
join(fields) ==
    IF Len(fields) = 0 THEN <<>>
    ELSE IF Len(fields) = 1 THEN fields[1]
    ELSE fields[1] \o <<TAB>> \o join(Tail(fields))


(***************************************************************************)
(* What the transfer worker (handoff-server-proc) may print.  An output is *)
(* log lines, then the status record joined by tabs, then possibly a       *)
(* trailing newline; "last" is the list of fields the worker put on the    *)
(* final line of that text.                                                *)
(***************************************************************************)
OPENSTACK == <<"O", "P", "E", "N", "S", "T", "A", "C", "K">>
OpenStack == <<"O", "p", "e", "n", "S", "t", "a", "c", "k">>
BADKEY == <<"B", "A", "D", "K", "E", "Y">>
Sizes == <<<<"1", "0">>, <<"2">>, <<"{", "}">>, <<"{", "1", "}">>>>
StatusRecord(keyword) == <<keyword>> \o Sizes

Records ==
    { StatusRecord(kw) : kw \in {OPENSTACK, openstack, OpenStack, BADKEY,
                                 <<"o", "p", "e", "n">>, <<>>} }
    \cup { <<OPENSTACK, <<"x">>, <<"2">>, <<"{", "}">>, <<"{", "}">>>>,
           <<OPENSTACK, <<>>, <<>>, <<>>, <<>>>>,
           <<OPENSTACK, <<"1", "0">>, <<"2">>, <<"{", "}">>>>,
           StatusRecord(OPENSTACK) \o <<<<"e">>>>,
           <<>> }

LogLines == {<<>>, <<"l", "o", "g", NL>>}
Endings == {<<>>, <<NL>>}

WorkerOutput(log, record, ending) ==
    [text |-> log \o join(record) \o ending,
     last |-> IF ending = <<>> /\ record # <<>> THEN record ELSE <<<<>>>>]

AllOutputs ==
    { WorkerOutput(l, r, e) : l \in LogLines, r \in Records, e \in Endings }

\* the one output of the coarse specification: a well-formed status line
CoarseOutputs == { WorkerOutput(<<>>, StatusRecord(OPENSTACK), <<>>) }

\* exit codes of the worker: success, failure, terminated by SIGTERM
ExitCodes == {0, 1, -15}

(***************************************************************************)
(* State.                                                                  *)
(***************************************************************************)
VARIABLES
    resumed_vm_dict,      \* CloudletDriver.resumed_vm_dict: uuid -> session
    synthesized_vm_dics,  \* CloudletDriver.synthesized_vm_dics: uuid -> session
    sessions,             \* the session objects constructed so far
    calls,                \* the driver calls in flight, with their locals
    cache,                \* the image cache directory: file name -> entry
    negotiation,          \* the last CloudletAPI._prepare_handoff_dest call
    tunnel,               \* a PortForwarding object, its sockets and threads
    api,                  \* the instance row and the CloudletAPI requests
    ports                 \* the TCP ports of the host and the sockets on them

vars == <<resumed_vm_dict, synthesized_vm_dics, sessions, calls, cache,
          negotiation, tunnel, api, ports>>

\* the state of the compute API, which the driver never touches
api_vars == <<negotiation, tunnel, api, ports>>

\* the state of the driver, which the compute API never touches
driver_vars == <<resumed_vm_dict, synthesized_vm_dics, sessions, calls, cache>>

\* a call slot that runs nothing
IdleCall ==
    [op |-> "none", pc |-> "idle", vm |-> "", path |-> "",
     handoff_url |-> "", residue_glance_id |-> FALSE,
     sess |-> None, exc |-> "", err |-> "",
     proc |-> "none", returncode |-> 0,
     wout |-> <<>>, pipe |-> <<>>, stdout_buf |-> <<>>, wlast |-> <<>>,
     ret |-> <<>>, parsed |-> FALSE,
     tmp_dir |-> FALSE, datafile |-> FALSE, zipfile |-> FALSE,
     launch_disk |-> FALSE, launch_mem |-> FALSE,
     uploaded |-> FALSE, removed |-> FALSE,
     preload |-> "none", request |-> "none",
     base_hashvalue |-> "", handoff_base |-> "",
     instance |-> "", snapshot_id |-> "", fname |-> <<>>, abspath |-> <<>>,
     residue_filepath |-> FALSE, task_state |-> "",
     paused |-> FALSE, detached |-> FALSE,
     basevm_sha256 |-> "", image_properties |-> <<>>,
     fetched |-> FALSE, resumed |-> FALSE,
     overlay_url |-> FALSE, handoff_info |-> FALSE,
     memory_snap_id |-> FALSE]

NoSessionObject == [kind |-> "none", overlays |-> 0, terminated |-> 0]

\* the instances and the catalog ids whose images are cached
Instances == {"i1", "i2"}
SnapshotIds == {"disk", "mem"}

\* hashlib.sha1(snapshot_id).hexdigest(): a name that tells the ids apart
sha1(snapshot_id) == <<"sha1", snapshot_id>>
Fnames == {sha1(id) : id \in SnapshotIds}

\* a file of the cache directory that nothing was fetched into; lock is the
\* call that holds the lock of that file name (0 for nobody)
NoEntry == [state |-> "absent", lock |-> 0, transfers |-> 0]

\* a local variable that no statement has assigned yet
Unbound == -1

\* no negotiation with a destination is running
NoNegotiation ==
    [pc |-> "idle", stage |-> "", response |-> <<>>,
     basevm_uuid |-> None, network_uuid |-> Unbound, flavor_id |-> None,
     exc |-> "", posted |-> FALSE, handoff |-> None, cast |-> FALSE]

\* the clients that may connect to the local port of a tunnel, and the
\* number of chunks each end of a tunnel may send
MaxClients == 2
MaxData == 1
Clients == 1..MaxClients

\* no PortForwarding object exists; a client is nowhere ("none"), in the
\* backlog of the listener ("queued"), accepted or refused, and has closed
\* its end or not
NoTunnel ==
    [pc |-> "none", listener |-> "none",
     clients |-> [k \in Clients |-> [at |-> "none", closed |-> FALSE]],
     client |-> 0, server |-> "none", accepts |-> 0, connects |-> 0,
     cs |-> "none", sc |-> "none", relayed |-> {},
     from_client |-> 0, from_server |-> 0,
     sent_client |-> 0, sent_server |-> 0, callbacks |-> 0]
\* the requests the compute API serves at a time for one instance
MaxRequests == 2
Requests == 1..MaxRequests

\* the ephemeral ports of the host and the PortForwarding objects made at
\* a time
MaxPorts == 2
MaxForwardings == 2
EphemeralPorts == 1..MaxPorts
Forwardings == 1..MaxForwardings

\* a socket of the host: the one __init__ binds to find a port ("sock"),
\* the listener of a tunnel's thread, or a socket of another program
Sock(kind, of) == [kind |-> kind, of |-> of]

\* no socket is bound to any port and no PortForwarding object exists
NoPorts ==
    [bound |-> [p \in EphemeralPorts |-> {}],
     objects |-> [t \in Forwardings |-> [pc |-> "none", source_port |-> 0]]]

IMAGE_SNAPSHOT == "image_snapshot"
IMAGE_PENDING_UPLOAD == "image_pending_upload"
IMAGE_UPLOADING == "image_uploading"

\* the row of the instance with no task (task_state None is ""), no request
\* and no RPC at the compute node
NoRequests ==
    [task_state |-> "",
     requests |-> [r \in Requests |-> [op |-> "none", pc |-> "idle",
                                       err |-> "", scheme |-> ""]],
     rpc |-> [r \in Requests |-> "none"]]

Init ==
    /\ resumed_vm_dict = [v \in VMs |-> None]
    /\ synthesized_vm_dics = [v \in VMs |-> None]
    /\ sessions = [s \in Sessions |-> NoSessionObject]
    /\ calls = [c \in Calls |-> IdleCall]
    /\ cache = [f \in Fnames |-> NoEntry]
    /\ negotiation = NoNegotiation
    /\ tunnel = NoTunnel
    /\ api = NoRequests
    /\ ports = NoPorts

\* the identity of the next object a constructor returns
FreeSessions == {s \in Sessions : sessions[s].kind = "none"}
NewSession == CHOOSE s \in FreeSessions : \A t \in FreeSessions : s <= t

Construct(s, kind) ==
    [sessions EXCEPT ![s] = [kind |-> kind, overlays |-> 0, terminated |-> 0]]

\* dict[key] = value and del dict[key]
SetItem(d, key, value) == [d EXCEPT ![key] = value]
DelItem(d, key) == [d EXCEPT ![key] = None]

(***************************************************************************)
(* spawn                                                                   *)
(***************************************************************************)
\* a chain that tries the overlay first
SpawnPath_OverlayFirst(overlay_url, handoff_info, memory_snap_id) ==
    IF overlay_url THEN "synthesis"
    ELSE IF handoff_info THEN "handoff"
    ELSE IF memory_snap_id THEN "base"
    ELSE "plain"

\* the if / elif chain of spawn
SpawnPath(overlay_url, handoff_info, memory_snap_id) ==
    IF overlay_url /\ ~handoff_info THEN "synthesis"
    ELSE IF handoff_info THEN "handoff"
    ELSE IF memory_snap_id THEN "base"
    ELSE "plain"

\* spawn up to the branch: reads the image metadata and the instance
\* metadata, builds the guest XML
spawn(c, v, overlay_url, handoff_info, memory_snap_id) ==
    /\ calls[c].pc = "idle"
    /\ calls' = [calls EXCEPT ![c] =
           [IdleCall EXCEPT !.op = "spawn", !.pc = "spawn_branch", !.vm = v,
               !.overlay_url = overlay_url, !.handoff_info = handoff_info,
               !.memory_snap_id = memory_snap_id,
               !.path = SpawnPath(overlay_url, handoff_info, memory_snap_id)]]
    /\ UNCHANGED <<resumed_vm_dict, synthesized_vm_dics, sessions>>

\* the else branch: _create_domain_and_network, no session
SpawnPlain(c) ==
    /\ calls[c].pc = "spawn_branch"
    /\ calls[c].path = "plain"
    /\ calls' = [calls EXCEPT ![c].pc = "done"]
    /\ UNCHANGED <<resumed_vm_dict, synthesized_vm_dics, sessions>>

\* resume_basevm: VM_Overlay(...).resume_basevm() and the registration;
\* the hypervisor may refuse the resume
resume_basevm(c, resumed) ==
    /\ calls[c].pc = "spawn_branch"
    /\ calls[c].path = "base"
    /\ IF resumed
       THEN /\ FreeSessions # {}
            /\ sessions' = Construct(NewSession, "VM_Overlay")
            /\ resumed_vm_dict' =
                   SetItem(resumed_vm_dict, calls[c].vm, NewSession)
            /\ calls' = [calls EXCEPT ![c].pc = "done"]
       ELSE /\ calls' = [calls EXCEPT ![c].pc = "raised",
                                      ![c].err = "libvirtError"]
            /\ UNCHANGED <<sessions, resumed_vm_dict>>
    /\ UNCHANGED synthesized_vm_dics

\* _spawn_using_synthesis and the registration of line 621
SpawnSynthesis(c, outcome) ==
    /\ calls[c].pc = "spawn_branch"
    /\ calls[c].path = "synthesis"
    /\ IF outcome = "ok"
       THEN /\ FreeSessions # {}
            /\ sessions' = Construct(NewSession, "SynthesizedVM")
            /\ synthesized_vm_dics' =
                   SetItem(synthesized_vm_dics, calls[c].vm, NewSession)
            /\ calls' = [calls EXCEPT ![c].pc = "done"]
       ELSE /\ calls' = [calls EXCEPT ![c].pc = "raised", ![c].err = outcome]
            /\ UNCHANGED <<sessions, synthesized_vm_dics>>
    /\ UNCHANGED resumed_vm_dict

(***************************************************************************)
(* The external transfer worker of a call (handoff-proc on the send side,  *)
(* handoff-server-proc -d on the receive side).                            *)
(***************************************************************************)
Min(a, b) == IF a <= b THEN a ELSE b

\* the worker writes the next k characters of its output to its stdout pipe
WorkerWrite(c, k) ==
    /\ calls[c].proc = "running"
    /\ k \in 1..Len(calls[c].wout)
    /\ calls' = [calls EXCEPT
           ![c].pipe = @ \o SubSeq(calls[c].wout, 1, k),
           ![c].wout = SubSeq(@, k + 1, Len(@))]
    /\ UNCHANGED <<resumed_vm_dict, synthesized_vm_dics, sessions>>

\* the worker exits (by itself, or killed: code -15) having written all it
\* had to write; whether it left its output files behind is its own affair
WorkerExit(c, code, made) ==
    /\ calls[c].proc = "running"
    /\ calls[c].wout = <<>>
    /\ calls' = [calls EXCEPT
           ![c].proc = "exited",
           ![c].returncode = code,
           ![c].launch_disk = (calls[c].op = "spawn" /\ made),
           ![c].launch_mem = (calls[c].op = "spawn" /\ made),
           ![c].zipfile = (calls[c].op = "perform_vmhandoff"
                              /\ calls[c].handoff_url = "file" /\ made)]
    /\ UNCHANGED <<resumed_vm_dict, synthesized_vm_dics, sessions>>

(***************************************************************************)
(* Receive role: _spawn_using_handoff, _handoff_recv, _handoff_launch_vm   *)
(***************************************************************************)
\* the base_sha256_uuid property of the image the instance is spawned from
image_sha256 == "A"

\* the base VMs a handed-off VM may have run on at its source
AllBases == {"A", "B"}
LocalBase == {image_sha256}

\* _spawn_using_handoff from mkdtemp to the Popen of _handoff_recv.  The
\* request directory exists from mkdtemp on, which is before the try block;
\* save_data / to_file / Popen may raise inside it.  The request carries the
\* base hash of the image (line 814); bases are the base VMs the arriving VM
\* may come from, which the driver is not told.
HandoffRecvLaunch(c, outs, bases, outcome) ==
    /\ calls[c].pc = "spawn_branch"
    /\ calls[c].path = "handoff"
    /\ \/ /\ outcome = "ok"
          /\ \E o \in outs, b \in bases :
                calls' = [calls EXCEPT
                    ![c].pc = "recv_wait",
                    ![c].tmp_dir = TRUE,
                    ![c].datafile = TRUE,
                    ![c].base_hashvalue = image_sha256,
                    ![c].handoff_base = b,
                    ![c].proc = "running",
                    ![c].wout = o.text,
                    ![c].wlast = o.last]
       \/ /\ outcome \in {"HandoffError", "OSError"}
          /\ calls' = [calls EXCEPT
                 ![c].pc = "recv_finally",
                 ![c].tmp_dir = TRUE,
                 ![c].datafile = (outcome = "OSError"),
                 ![c].exc = outcome]
    /\ UNCHANGED <<resumed_vm_dict, synthesized_vm_dics, sessions>>

\* stdout_buf.getvalue().split("\n")[-1].split("\t"): the fields of the
\* last line of the text (each step taken on the value of the one before)
LastFields(text) ==
    CHOOSE fields \in
        {split(line, TAB) :
            line \in {lines[Len(lines)] : lines \in {split(text, NL)}}} : TRUE

\* the status line parsed whatever the exit code, as the send side does
ParseStatus_NoExitCheck(returncode, text) ==
    LET fields == LastFields(text)
    IN  IF Len(fields) # 5
        THEN [exc |-> "ValueError", ret |-> <<>>, parsed |-> TRUE]
        ELSE IF lower(fields[1]) # openstack
        THEN [exc |-> "HandoffError", ret |-> <<>>, parsed |-> TRUE]
        ELSE [exc |-> "", ret |-> Tail(fields), parsed |-> TRUE]

\* lines 900-910 of _handoff_recv: the exit code, then the status line
ParseStatus(returncode, text) ==
    LET fields == LastFields(text)
    IN  IF returncode # 0
        THEN [exc |-> "HandoffError", ret |-> <<>>, parsed |-> FALSE]
        ELSE IF Len(fields) # 5
        THEN [exc |-> "ValueError", ret |-> <<>>, parsed |-> TRUE]
        ELSE IF lower(fields[1]) # openstack
        THEN [exc |-> "HandoffError", ret |-> <<>>, parsed |-> TRUE]
        ELSE [exc |-> "", ret |-> Tail(fields), parsed |-> TRUE]

\* a last tick that parses what the earlier ticks buffered
RecvPoll_NoFinalRead(c) ==
    /\ calls[c].pc = "recv_wait"
    /\ IF calls[c].proc = "running"
       THEN calls' = [calls EXCEPT ![c].pc = "recv_select"]
       ELSE LET text == calls[c].stdout_buf
                r == ParseStatus(calls[c].returncode, text)
            IN  calls' = [calls EXCEPT
                    ![c].pipe = <<>>,
                    ![c].exc = r.exc,
                    ![c].ret = r.ret,
                    ![c].parsed = r.parsed,
                    ![c].pc = IF r.exc = "" THEN "recv_launch"
                              ELSE "recv_finally"]
    /\ UNCHANGED <<resumed_vm_dict, synthesized_vm_dics, sessions>>

\* one tick of _wait_for_handoff_recv up to the select, or, once the worker
\* has exited, the last read, LoopingCallDone and the rest of _handoff_recv
RecvPoll(c) ==
    /\ calls[c].pc = "recv_wait"
    /\ IF calls[c].proc = "running"
       THEN calls' = [calls EXCEPT ![c].pc = "recv_select"]
       ELSE LET text == calls[c].stdout_buf \o calls[c].pipe
                r == ParseStatus(calls[c].returncode, text)
            IN  calls' = [calls EXCEPT
                    ![c].stdout_buf = text,
                    ![c].pipe = <<>>,
                    ![c].exc = r.exc,
                    ![c].ret = r.ret,
                    ![c].parsed = r.parsed,
                    ![c].pc = IF r.exc = "" THEN "recv_launch"
                              ELSE "recv_finally"]
    /\ UNCHANGED <<resumed_vm_dict, synthesized_vm_dics, sessions>>

\* a select that the end of file does not wake
RecvRead_DataOnly(c) ==
    /\ calls[c].pc = "recv_select"
    /\ calls[c].pipe # <<>>
    /\ LET n == Min(ReadMax, Len(calls[c].pipe))
       IN  calls' = [calls EXCEPT
               ![c].stdout_buf = @ \o SubSeq(calls[c].pipe, 1, n),
               ![c].pipe = SubSeq(@, n + 1, Len(@)),
               ![c].pc = "recv_wait"]
    /\ UNCHANGED <<resumed_vm_dict, synthesized_vm_dics, sessions>>

\* the rest of the tick: select returns when the pipe is readable (data, or
\* end of file once the worker is gone), os.read takes at most ReadMax
RecvRead(c) ==
    /\ calls[c].pc = "recv_select"
    /\ calls[c].pipe # <<>> \/ calls[c].proc = "exited"
    /\ LET n == Min(ReadMax, Len(calls[c].pipe))
       IN  calls' = [calls EXCEPT
               ![c].stdout_buf = @ \o SubSeq(calls[c].pipe, 1, n),
               ![c].pipe = SubSeq(@, n + 1, Len(@)),
               ![c].pc = "recv_wait"]
    /\ UNCHANGED <<resumed_vm_dict, synthesized_vm_dics, sessions>>

\* int(launch_disk_size), int(launch_memory_size), then _handoff_launch_vm:
\* run_fuse, SynthesizedVM(...), resume(); the hypervisor may refuse
_handoff_launch_vm(c, resumed) ==
    /\ calls[c].pc = "recv_launch"
    /\ IF ~(IsNumber(calls[c].ret[1]) /\ IsNumber(calls[c].ret[2]))
       THEN /\ calls' = [calls EXCEPT ![c].pc = "recv_finally",
                                      ![c].exc = "ValueError"]
            /\ UNCHANGED sessions
       ELSE IF resumed
       THEN /\ FreeSessions # {}
            /\ sessions' = Construct(NewSession, "SynthesizedVM")
            /\ calls' = [calls EXCEPT ![c].pc = "recv_finally",
                                      ![c].sess = NewSession]
       ELSE /\ calls' = [calls EXCEPT ![c].pc = "recv_finally",
                                      ![c].exc = "libvirtError"]
            /\ UNCHANGED sessions
    /\ UNCHANGED <<resumed_vm_dict, synthesized_vm_dics>>

\* the cleanup done in the except clause and after the try, not in a finally
RecvFinally_ExceptOnly(c) ==
    /\ calls[c].pc = "recv_finally"
    /\ LET cleaned == calls[c].exc \in {"", "HandoffError"}
       IN  calls' = [calls EXCEPT
               ![c].pc = "recv_return",
               ![c].err = IF calls[c].exc = "HandoffError"
                          THEN "ImageNotFound" ELSE calls[c].exc,
               ![c].tmp_dir = @ /\ ~cleaned,
               ![c].datafile = @ /\ ~cleaned,
               ![c].launch_disk = @ /\ ~cleaned,
               ![c].launch_mem = @ /\ ~cleaned]
    /\ UNCHANGED <<resumed_vm_dict, synthesized_vm_dics, sessions>>

\* the except and finally clauses of _spawn_using_handoff
RecvFinally(c) ==
    /\ calls[c].pc = "recv_finally"
    /\ calls' = [calls EXCEPT
           ![c].pc = "recv_return",
           ![c].err = IF calls[c].exc = "HandoffError" THEN "ImageNotFound"
                      ELSE calls[c].exc,
           ![c].tmp_dir = FALSE,
           ![c].datafile = FALSE,
           ![c].launch_disk = FALSE,
           ![c].launch_mem = FALSE]
    /\ UNCHANGED <<resumed_vm_dict, synthesized_vm_dics, sessions>>

\* a spawn that registers what it holds before it looks at the error
SpawnHandoffReturn_RegisterFirst(c) ==
    /\ calls[c].pc = "recv_return"
    /\ synthesized_vm_dics' =
           SetItem(synthesized_vm_dics, calls[c].vm, calls[c].sess)
    /\ calls' = [calls EXCEPT
           ![c].pc = IF calls[c].err = "" THEN "done" ELSE "raised"]
    /\ UNCHANGED <<resumed_vm_dict, sessions>>

\* back in spawn: the error leaves spawn, or line 631 registers the session
SpawnHandoffReturn(c) ==
    /\ calls[c].pc = "recv_return"
    /\ IF calls[c].err = ""
       THEN /\ synthesized_vm_dics' =
                   SetItem(synthesized_vm_dics, calls[c].vm, calls[c].sess)
            /\ calls' = [calls EXCEPT ![c].pc = "done"]
       ELSE /\ calls' = [calls EXCEPT ![c].pc = "raised"]
            /\ UNCHANGED synthesized_vm_dics
    /\ UNCHANGED <<resumed_vm_dict, sessions>>

(***************************************************************************)
(* Send role: perform_vmhandoff and _handoff_send                          *)
(***************************************************************************)
\* what handoff-proc may print; the send side only logs it
SendOutputs == {<<>>, <<"l", "o", "g", NL>>}

\* the residue_glance_id CloudletAPI.cloudlet_handoff passes along with a
\* handoff_url: an image id for the file scheme, None otherwise
ResidueGlanceId(handoff_url) == handoff_url = "file"

\* the session taken out of the registry by the lookup itself
perform_vmhandoff_TakeAtStart(c, v, handoff_url, found) ==
    /\ calls[c].pc = "idle"
    /\ LET synthesized_vm == synthesized_vm_dics[v]
           taken == found /\ synthesized_vm # None
       IN  /\ calls' = [calls EXCEPT ![c] =
                  IF taken
                  THEN [IdleCall EXCEPT
                           !.op = "perform_vmhandoff", !.pc = "send_prep",
                           !.vm = v, !.handoff_url = handoff_url,
                           !.residue_glance_id = ResidueGlanceId(handoff_url),
                           !.sess = synthesized_vm, !.removed = TRUE]
                  ELSE [IdleCall EXCEPT
                           !.op = "perform_vmhandoff", !.pc = "raised",
                           !.vm = v, !.handoff_url = handoff_url,
                           !.residue_glance_id = ResidueGlanceId(handoff_url),
                           !.err = "InstanceNotRunning"]]
           /\ synthesized_vm_dics' =
                  IF taken THEN DelItem(synthesized_vm_dics, v)
                  ELSE synthesized_vm_dics
    /\ UNCHANGED <<resumed_vm_dict, sessions>>

\* perform_vmhandoff up to the lookup of line 308; found is whether the
\* hypervisor still knows the domain
perform_vmhandoff(c, v, handoff_url, found) ==
    /\ calls[c].pc = "idle"
    /\ LET synthesized_vm == synthesized_vm_dics[v]
           residue_glance_id == ResidueGlanceId(handoff_url)
       IN  calls' = [calls EXCEPT ![c] =
               IF found /\ synthesized_vm # None
               THEN [IdleCall EXCEPT
                        !.op = "perform_vmhandoff", !.pc = "send_prep",
                        !.vm = v, !.handoff_url = handoff_url,
                        !.residue_glance_id = residue_glance_id,
                        !.sess = synthesized_vm,
                        !.task_state = IMAGE_PENDING_UPLOAD]
               ELSE [IdleCall EXCEPT
                        !.op = "perform_vmhandoff", !.pc = "raised",
                        !.vm = v, !.handoff_url = handoff_url,
                        !.residue_glance_id = residue_glance_id,
                        !.err = "InstanceNotRunning"]]
    /\ UNCHANGED <<resumed_vm_dict, synthesized_vm_dics, sessions>>

\* lines 379-380: PreloadResidueData(...).start(); the caller goes on to the
\* join, where it waits
PreloadStart(c) ==
    /\ calls[c].pc = "send_prep"
    /\ calls' = [calls EXCEPT ![c].pc = "send_join", ![c].preload = "running"]
    /\ UNCHANGED <<resumed_vm_dict, synthesized_vm_dics, sessions>>

\* the preload task runs to its end: basedisk_hashdict and basemem_hashdict
\* are set on the thread object
PreloadRun(c) ==
    /\ calls[c].preload = "running"
    /\ calls' = [calls EXCEPT ![c].preload = "done"]
    /\ UNCHANGED <<resumed_vm_dict, synthesized_vm_dics, sessions>>

\* what save_data is handed as preload_thread.basedisk_hashdict and
\* basemem_hashdict at lines 410-411
HashDicts(preload) == IF preload = "done" THEN "dicts" ELSE "unset"

\* _handoff_send that goes on without the join of line 381
_handoff_send_NoJoin(c, outcome) ==
    /\ calls[c].pc = "send_join"
    /\ \/ /\ outcome = "ok"
          /\ \E o \in SendOutputs :
                calls' = [calls EXCEPT
                    ![c].pc = "send_wait",
                    ![c].tmp_dir = TRUE,
                    ![c].datafile = TRUE,
                    ![c].request = HashDicts(calls[c].preload),
                    ![c].proc = "running",
                    ![c].wout = o]
       \/ /\ outcome \in {"preload", "save_data", "Popen"}
          /\ calls' = [calls EXCEPT
                 ![c].pc = "raised",
                 ![c].tmp_dir = (outcome # "preload"),
                 ![c].datafile = (outcome = "Popen"),
                 ![c].request = IF outcome = "Popen"
                                THEN HashDicts(calls[c].preload) ELSE "none",
                 ![c].exc = IF outcome = "Popen" THEN "OSError"
                            ELSE "HandoffError",
                 ![c].err = IF outcome = "Popen" THEN "OSError"
                            ELSE "ImageNotFound"]
    /\ UNCHANGED <<resumed_vm_dict, synthesized_vm_dics, sessions>>

\* _handoff_send from the join of line 381 to the Popen.  It can fail in the
\* preload (nothing created yet), in save_data / to_file (the directory
\* exists) or in Popen (the request file exists too); perform_vmhandoff turns
\* a HandoffError into ImageNotFound and lets anything else through.
_handoff_send(c, outcome) ==
    /\ calls[c].pc = "send_join"
    /\ calls[c].preload = "done"
    /\ \/ /\ outcome = "ok"
          /\ \E o \in SendOutputs :
                calls' = [calls EXCEPT
                    ![c].pc = "send_wait",
                    ![c].tmp_dir = TRUE,
                    ![c].datafile = TRUE,
                    ![c].request = HashDicts(calls[c].preload),
                    ![c].proc = "running",
                    ![c].wout = o]
       \/ /\ outcome \in {"preload", "save_data", "Popen"}
          /\ calls' = [calls EXCEPT
                 ![c].pc = "raised",
                 ![c].tmp_dir = (outcome # "preload"),
                 ![c].datafile = (outcome = "Popen"),
                 ![c].request = IF outcome = "Popen"
                                THEN HashDicts(calls[c].preload) ELSE "none",
                 ![c].exc = IF outcome = "Popen" THEN "OSError"
                            ELSE "HandoffError",
                 ![c].err = IF outcome = "Popen" THEN "OSError"
                            ELSE "ImageNotFound"]
    /\ UNCHANGED <<resumed_vm_dict, synthesized_vm_dics, sessions>>

\* a _handoff_send that makes a residue path for every destination
residue_zipfile_Always(handoff_url) == TRUE

\* lines 392-398 and 445: the value _handoff_send returns is a path in the
\* request directory for the file scheme and None otherwise
residue_zipfile(handoff_url) == handoff_url = "file"

\* one tick of _wait_for_handoff_send up to the select, or, once poll()
\* returns a code, LoopingCallDone, the return of residue_zipfile (the
\* Popen object and its pipe go with the frame) and the del of line 351
\* (a KeyError when the key is gone)
SendPoll(c) ==
    /\ calls[c].pc = "send_wait"
    /\ IF calls[c].proc = "running"
       THEN /\ calls' = [calls EXCEPT ![c].pc = "send_select"]
            /\ UNCHANGED synthesized_vm_dics
       ELSE IF synthesized_vm_dics[calls[c].vm] = None
       THEN /\ calls' = [calls EXCEPT
                   ![c].pc = "raised",
                   ![c].pipe = <<>>,
                   ![c].residue_filepath =
                       residue_zipfile(calls[c].handoff_url),
                   ![c].err = "KeyError"]
            /\ UNCHANGED synthesized_vm_dics
       ELSE /\ synthesized_vm_dics' = DelItem(synthesized_vm_dics, calls[c].vm)
            /\ calls' = [calls EXCEPT
                   ![c].pc = "send_upload",
                   ![c].pipe = <<>>,
                   ![c].residue_filepath =
                       residue_zipfile(calls[c].handoff_url),
                   ![c].removed = TRUE]
    /\ UNCHANGED <<resumed_vm_dict, sessions>>

\* the rest of the tick: select, then os.read; the data is only logged
SendRead(c) ==
    /\ calls[c].pc = "send_select"
    /\ calls[c].pipe # <<>> \/ calls[c].proc = "exited"
    /\ LET n == Min(ReadMax, Len(calls[c].pipe))
       IN  calls' = [calls EXCEPT
               ![c].pipe = SubSeq(@, n + 1, Len(@)),
               ![c].pc = "send_wait"]
    /\ UNCHANGED <<resumed_vm_dict, synthesized_vm_dics, sessions>>

\* lines 352-370: when there is a residue and an image id for it, the task
\* state IMAGE_UPLOADING and the upload; then the removal of the residue
\* file
HandoffUpload(c, accepted) ==
    /\ calls[c].pc = "send_upload"
    /\ IF calls[c].residue_filepath /\ calls[c].residue_glance_id
       THEN IF ~calls[c].zipfile
            THEN calls' = [calls EXCEPT ![c].pc = "raised",
                                        ![c].task_state = IMAGE_UPLOADING,
                                        ![c].err = "IOError"]
            ELSE IF accepted
            THEN calls' = [calls EXCEPT ![c].pc = "done",
                                        ![c].task_state = IMAGE_UPLOADING,
                                        ![c].uploaded = TRUE,
                                        ![c].zipfile = FALSE]
            ELSE calls' = [calls EXCEPT ![c].pc = "raised",
                                        ![c].task_state = IMAGE_UPLOADING,
                                        ![c].err = "ImageServiceError"]
       ELSE calls' = [calls EXCEPT ![c].pc = "done",
                                   ![c].zipfile = FALSE]
    /\ UNCHANGED <<resumed_vm_dict, synthesized_vm_dics, sessions>>

(***************************************************************************)
(* create_overlay_vm                                                       *)
(***************************************************************************)
\* create_overlay_vm up to line 281: get_domain, the cache, the detach of
\* the bridge interface, pause, the task state
\* (found: get_domain finds the domain; detached: the domain has a bridge
\* interface and detachDevice took it off)
create_overlay_vm(c, v, found, detached) ==
    /\ calls[c].pc = "idle"
    /\ calls' = [calls EXCEPT ![c] =
           IF found
           THEN [IdleCall EXCEPT !.op = "create_overlay_vm",
                                 !.pc = "overlay_take", !.vm = v,
                                 !.detached = detached,
                                 !.paused = TRUE,
                                 !.task_state = IMAGE_PENDING_UPLOAD]
           ELSE [IdleCall EXCEPT !.op = "create_overlay_vm",
                                 !.pc = "raised", !.vm = v,
                                 !.err = "InstanceNotRunning"]]
    /\ UNCHANGED <<resumed_vm_dict, synthesized_vm_dics, sessions>>

\* a take that falls back on the session of the other variant
OverlayTake_AnyVariant(c) ==
    /\ calls[c].pc = "overlay_take"
    /\ LET v == calls[c].vm
           vm_overlay == IF resumed_vm_dict[v] # None THEN resumed_vm_dict[v]
                         ELSE synthesized_vm_dics[v]
       IN  IF vm_overlay = None
           THEN /\ calls' = [calls EXCEPT ![c].pc = "raised",
                                          ![c].err = "InstanceNotRunning"]
                /\ UNCHANGED <<resumed_vm_dict, synthesized_vm_dics>>
           ELSE /\ resumed_vm_dict' = DelItem(resumed_vm_dict, v)
                /\ synthesized_vm_dics' =
                       IF resumed_vm_dict[v] # None THEN synthesized_vm_dics
                       ELSE DelItem(synthesized_vm_dics, v)
                /\ calls' = [calls EXCEPT ![c].pc = "overlay_create",
                                          ![c].sess = vm_overlay,
                                          ![c].removed = TRUE]
    /\ UNCHANGED sessions

\* the lookup without the del
OverlayTake_NoDel(c) ==
    /\ calls[c].pc = "overlay_take"
    /\ LET vm_overlay == resumed_vm_dict[calls[c].vm]
       IN  IF vm_overlay = None
           THEN calls' = [calls EXCEPT ![c].pc = "raised",
                                       ![c].err = "InstanceNotRunning"]
           ELSE calls' = [calls EXCEPT ![c].pc = "overlay_create",
                                       ![c].sess = vm_overlay]
    /\ UNCHANGED <<resumed_vm_dict, synthesized_vm_dics, sessions>>

\* lines 283-286: the lookup and the del, with nothing in between
OverlayTake(c) ==
    /\ calls[c].pc = "overlay_take"
    /\ LET vm_overlay == resumed_vm_dict[calls[c].vm]
       IN  IF vm_overlay = None
           THEN /\ calls' = [calls EXCEPT ![c].pc = "raised",
                                          ![c].err = "InstanceNotRunning"]
                /\ UNCHANGED resumed_vm_dict
           ELSE /\ resumed_vm_dict' = DelItem(resumed_vm_dict, calls[c].vm)
                /\ calls' = [calls EXCEPT ![c].pc = "overlay_create",
                                          ![c].sess = vm_overlay,
                                          ![c].removed = TRUE]
    /\ UNCHANGED <<synthesized_vm_dics, sessions>>

\* vm_overlay.create_overlay(): leaves overlay_zipfile, or raises
OverlayCreate(c, created) ==
    /\ calls[c].pc = "overlay_create"
    /\ sessions' = [sessions EXCEPT ![calls[c].sess].overlays = Min(@ + 1, 2)]
    /\ calls' = IF created
                THEN [calls EXCEPT ![c].pc = "overlay_upload",
                                   ![c].zipfile = TRUE]
                ELSE [calls EXCEPT ![c].pc = "raised",
                                   ![c].err = "CloudletGenerationError"]
    /\ UNCHANGED <<resumed_vm_dict, synthesized_vm_dics>>

\* the archive removed whether or not the upload went through
OverlayUpload_AlwaysRemove(c, accepted) ==
    /\ calls[c].pc = "overlay_upload"
    /\ calls' = IF accepted
                THEN [calls EXCEPT ![c].pc = "done",
                                   ![c].uploaded = TRUE,
                                   ![c].zipfile = FALSE]
                ELSE [calls EXCEPT ![c].pc = "raised",
                                   ![c].err = "ImageServiceError",
                                   ![c].zipfile = FALSE]
    /\ UNCHANGED <<resumed_vm_dict, synthesized_vm_dics, sessions>>

\* lines 291-300: _update_to_glance, then the removal of the archive
OverlayUpload(c, accepted) ==
    /\ calls[c].pc = "overlay_upload"
    /\ calls' = IF accepted
                THEN [calls EXCEPT ![c].pc = "done",
                                   ![c].uploaded = TRUE,
                                   ![c].zipfile = FALSE]
                ELSE [calls EXCEPT ![c].pc = "raised",
                                   ![c].err = "ImageServiceError"]
    /\ UNCHANGED <<resumed_vm_dict, synthesized_vm_dics, sessions>>

(***************************************************************************)
(* _destroy                                                                *)
(***************************************************************************)
\* super()._destroy(instance): the hypervisor tears the domain down
_destroy(c, v) ==
    /\ calls[c].pc = "idle"
    /\ calls' = [calls EXCEPT ![c] =
           [IdleCall EXCEPT !.op = "_destroy", !.pc = "destroy_registry",
                            !.vm = v]]
    /\ UNCHANGED <<resumed_vm_dict, synthesized_vm_dics, sessions>>

Terminate(ss, s) ==
    IF s = None THEN ss ELSE [ss EXCEPT ![s].terminated = Min(@ + 1, 2)]

\* a _destroy that looks at the resumed base VMs only
DestroyRegistry_ResumedOnly(c) ==
    /\ calls[c].pc = "destroy_registry"
    /\ LET v == calls[c].vm
           vm_overlay == resumed_vm_dict[v]
       IN  /\ sessions' = Terminate(sessions, vm_overlay)
           /\ resumed_vm_dict' = DelItem(resumed_vm_dict, v)
           /\ calls' = [calls EXCEPT ![c].pc = "done",
                                     ![c].removed = (vm_overlay # None)]
    /\ UNCHANGED synthesized_vm_dics

\* lines 679-697: both registries are checked, a session found is
\* terminated and its key deleted
DestroyRegistry(c) ==
    /\ calls[c].pc = "destroy_registry"
    /\ LET v == calls[c].vm
           vm_overlay == resumed_vm_dict[v]
           synthesized_VM == synthesized_vm_dics[v]
       IN  /\ sessions' = Terminate(Terminate(sessions, vm_overlay),
                                    synthesized_VM)
           /\ resumed_vm_dict' = DelItem(resumed_vm_dict, v)
           /\ synthesized_vm_dics' = DelItem(synthesized_vm_dics, v)
           /\ calls' = [calls EXCEPT
                  ![c].pc = "done",
                  ![c].removed = (vm_overlay # None \/ synthesized_VM # None)]

(***************************************************************************)
(* _get_cache_image and the image cache it calls                           *)
(***************************************************************************)
\* lines 448-467: the file name is the sha1 of the snapshot id; then
\* raw('disk').cache(fetch_func=fetch_image, filename=fname, ...) is called
_get_cache_image(c, instance, snapshot_id) ==
    /\ calls[c].pc = "idle"
    /\ calls' = [calls EXCEPT ![c] =
           [IdleCall EXCEPT !.op = "_get_cache_image", !.pc = "cache_call",
                            !.instance = instance,
                            !.snapshot_id = snapshot_id,
                            !.fname = sha1(snapshot_id)]]
    /\ UNCHANGED <<resumed_vm_dict, synthesized_vm_dics, sessions, cache>>

\* cache(): a file that is there is used as it is; otherwise the caller goes
\* for the lock of the file name
CacheLookup(c) ==
    /\ calls[c].pc = "cache_call"
    /\ calls' = [calls EXCEPT ![c].pc =
           IF cache[calls[c].fname].state = "complete"
           THEN "cache_returned" ELSE "cache_lock"]
    /\ UNCHANGED <<resumed_vm_dict, synthesized_vm_dics, sessions, cache>>

\* cache(): with the lock, the file is looked for again; when it is still
\* missing the transfer from the catalog starts, into a partial file
CacheAcquire(c) ==
    /\ calls[c].pc = "cache_lock"
    /\ cache[calls[c].fname].lock = 0
    /\ IF cache[calls[c].fname].state = "complete"
       THEN /\ calls' = [calls EXCEPT ![c].pc = "cache_returned"]
            /\ UNCHANGED cache
       ELSE /\ calls' = [calls EXCEPT ![c].pc = "cache_fetch"]
            /\ cache' = [cache EXCEPT ![calls[c].fname].lock = c,
                                      ![calls[c].fname].state = "partial"]
    /\ UNCHANGED <<resumed_vm_dict, synthesized_vm_dics, sessions>>

\* cache(): the transfer ends; the file is published under its name and the
\* lock released, or the partial file is dropped and the error raised
CacheFetchDone(c, ok) ==
    /\ calls[c].pc = "cache_fetch"
    /\ IF ok
       THEN /\ calls' = [calls EXCEPT ![c].pc = "cache_returned"]
            /\ cache' = [cache EXCEPT
                   ![calls[c].fname].lock = 0,
                   ![calls[c].fname].state = "complete",
                   ![calls[c].fname].transfers = Min(@ + 1, 2)]
       ELSE /\ calls' = [calls EXCEPT ![c].pc = "raised",
                                      ![c].err = "ImageNotFound"]
            /\ cache' = [cache EXCEPT ![calls[c].fname].lock = 0,
                                      ![calls[c].fname].state = "absent"]
    /\ UNCHANGED <<resumed_vm_dict, synthesized_vm_dics, sessions>>

\* a path under the directory of the instance, as basepath() builds
abspath_InstancePath(instance, fname) == <<instance, fname>>

\* lines 470-473: instances_path / image_cache_subdirectory_name / fname
abspath(instance, fname) == <<"_base", fname>>

\* the path handed back right after the call of cache(), whatever it is at
GetCacheImageReturn_NoWait(c) ==
    /\ calls[c].op = "_get_cache_image"
    /\ calls[c].pc \in {"cache_lock", "cache_fetch", "cache_returned"}
    /\ calls' = [calls EXCEPT
           ![c].pc = "done",
           ![c].abspath = abspath(calls[c].instance, calls[c].fname)]
    /\ UNCHANGED <<resumed_vm_dict, synthesized_vm_dics, sessions, cache>>

\* lines 469-474: cache() has returned; the path is built and returned
GetCacheImageReturn(c) ==
    /\ calls[c].pc = "cache_returned"
    /\ calls' = [calls EXCEPT
           ![c].pc = "done",
           ![c].abspath = abspath(calls[c].instance, calls[c].fname)]
    /\ UNCHANGED <<resumed_vm_dict, synthesized_vm_dics, sessions, cache>>

\* the call has returned or raised; its green thread ends
Return(c) ==
    /\ calls[c].pc \in {"done", "raised"}
    /\ calls' = [calls EXCEPT ![c] = IdleCall]
    /\ UNCHANGED <<resumed_vm_dict, synthesized_vm_dics, sessions>>

(***************************************************************************)
(* CloudletAPI._prepare_handoff_dest: the negotiation with the destination *)
(* of a handoff.  The catalogs of the destination are the answers to three *)
(* HTTP requests; the id of an item is its place in its list.              *)
(***************************************************************************)
MaxImages == 2
MaxNetworks == 2
MaxFlavors == 2

IMAGE_TYPE_BASE_DISK == "cloudlet_base_disk"
IMAGE_TYPE_BASE_MEM == "cloudlet_base_memory"

\* what image_item.get("cloudlet_type", None) gives for an image without
\* that property
NoProperty == "None"

\* the source instance: its base, its project, the network and the flavor
\* it asks for
requested_basevm_id == "A"
instance_project_id == "p1"
dest_network == "net"
flavor_cpu == 2
flavor_memory == 4096

SeqsUpTo(S, n) == UNION {[1..k -> S] : k \in 0..n}

ImageItems ==
    [cloudlet_type : {NoProperty, "", IMAGE_TYPE_BASE_DISK,
                      IMAGE_TYPE_BASE_MEM},
     base_sha256_uuid : {"A", "B"}]
NetworkItems == [project_id : {"p1", "p2"}, name : {"net", "other"}]
FlavorItems == [vcpus : {2, 4}, ram : {4096, 8192}]

\* the loop over the images, from item i on: the id of the first base disk
\* image of the requested base, None when the loop ends without a break
RECURSIVE find_basevm_AnyType(_, _)
find_basevm_AnyType(image_list, i) ==
    IF i > Len(image_list) THEN None
    ELSE IF image_list[i].base_sha256_uuid = requested_basevm_id THEN i
    ELSE find_basevm_AnyType(image_list, i + 1)

RECURSIVE find_basevm(_, _)
find_basevm(image_list, i) ==
    IF i > Len(image_list) THEN None
    ELSE LET properties == image_list[i].cloudlet_type
         IN  IF properties = NoProperty \/ properties = ""
             THEN find_basevm(image_list, i + 1)
             ELSE IF properties # IMAGE_TYPE_BASE_DISK
             THEN find_basevm(image_list, i + 1)
             ELSE IF image_list[i].base_sha256_uuid = requested_basevm_id
             THEN i
             ELSE find_basevm(image_list, i + 1)

\* the loop over the networks, from item i on, with the value network_uuid
\* has when item i is reached: a network of another project is skipped, a
\* network of the project first sets network_uuid to None and then to its
\* id when its name is the requested one
RECURSIVE find_network(_, _, _)
find_network(network_list, i, network_uuid) ==
    IF i > Len(network_list) THEN network_uuid
    ELSE IF network_list[i].project_id # instance_project_id
    THEN find_network(network_list, i + 1, network_uuid)
    ELSE find_network(network_list, i + 1,
                      IF network_list[i].name = dest_network THEN i
                      ELSE None)

\* a flavor that is large enough
RECURSIVE find_matching_flavor_Nearest(_, _, _, _)
find_matching_flavor_Nearest(flavor_list, i, cpu_count, memory_mb) ==
    IF i > Len(flavor_list) THEN None
    ELSE IF flavor_list[i].vcpus >= cpu_count /\ flavor_list[i].ram >= memory_mb
    THEN i
    ELSE find_matching_flavor_Nearest(flavor_list, i + 1, cpu_count,
                                      memory_mb)

\* the loop of find_matching_flavor, from item i on; the flavors of the
\* catalog hold integers, which int() leaves as they are
RECURSIVE find_matching_flavor(_, _, _, _)
find_matching_flavor(flavor_list, i, cpu_count, memory_mb) ==
    IF i > Len(flavor_list) THEN None
    ELSE IF flavor_list[i].vcpus = cpu_count /\ flavor_list[i].ram = memory_mb
    THEN i
    ELSE find_matching_flavor(flavor_list, i + 1, cpu_count, memory_mb)

\* _prepare_handoff_dest up to the image that was found or not
_prepare_handoff_dest(image_list) ==
    /\ negotiation.pc = "idle"
    /\ LET basevm_uuid == find_basevm(image_list, 1)
       IN  negotiation' =
               [NoNegotiation EXCEPT
                   !.stage = "images", !.response = image_list,
                   !.basevm_uuid = basevm_uuid,
                   !.pc = IF basevm_uuid = None THEN "raised"
                          ELSE "networks",
                   !.exc = IF basevm_uuid = None THEN "HandoffError"
                           ELSE ""]
    /\ UNCHANGED <<driver_vars, tunnel, api, ports>>

\* the networks of the destination: reading network_uuid after a loop that
\* never assigned it raises UnboundLocalError
PrepareNetworks(network_list) ==
    /\ negotiation.pc = "networks"
    /\ LET network_uuid == find_network(network_list, 1, Unbound)
       IN  negotiation' =
               [negotiation EXCEPT
                   !.stage = "networks", !.response = network_list,
                   !.network_uuid = network_uuid,
                   !.pc = IF network_uuid \in {Unbound, None} THEN "raised"
                          ELSE "flavors",
                   !.exc = IF network_uuid = Unbound
                           THEN "UnboundLocalError"
                           ELSE IF network_uuid = None THEN "HandoffError"
                           ELSE ""]
    /\ UNCHANGED <<driver_vars, tunnel, api, ports>>

\* the flavors of the destination
PrepareFlavors(flavor_list) ==
    /\ negotiation.pc = "flavors"
    /\ LET flavor_id ==
               find_matching_flavor(flavor_list, 1, flavor_cpu, flavor_memory)
       IN  negotiation' =
               [negotiation EXCEPT
                   !.stage = "flavors", !.response = flavor_list,
                   !.flavor_id = flavor_id,
                   !.pc = IF flavor_id = None THEN "raised" ELSE "request",
                   !.exc = IF flavor_id = None THEN "HandoffError" ELSE ""]
    /\ UNCHANGED <<driver_vars, tunnel, api, ports>>

\* the create-server request is posted to the destination, whose reply
\* carries the address to hand off to (1) or no "handoff" entry (None)
PrepareRequest(handoff) ==
    /\ negotiation.pc = "request"
    /\ negotiation' = [negotiation EXCEPT !.stage = "request",
                                          !.posted = TRUE,
                                          !.handoff = handoff,
                                          !.pc = "reply"]
    /\ UNCHANGED <<driver_vars, tunnel, api, ports>>

\* cloudlet_handoff, http destination, after _prepare_handoff_dest returned:
\* a reply without address raises HandoffError, otherwise the handoff is
\* cast to the compute node
HandoffCast ==
    /\ negotiation.pc = "reply"
    /\ negotiation' =
           IF negotiation.handoff = None
           THEN [negotiation EXCEPT !.stage = "cast", !.pc = "raised",
                                    !.exc = "HandoffError"]
           ELSE [negotiation EXCEPT !.stage = "cast", !.cast = TRUE,
                                    !.pc = "cast"]
    /\ UNCHANGED <<driver_vars, tunnel, api, ports>>

\* cloudlet_handoff returns to its caller, or the error of a failed stage
\* reaches the caller
PrepareReturn ==
    /\ negotiation.pc \in {"cast", "raised"}
    /\ negotiation' = NoNegotiation
    /\ UNCHANGED <<driver_vars, tunnel, api, ports>>

(***************************************************************************)
(* PortForwarding: the tunnel of a handoff.  The thread and the two        *)
(* forward() green threads are the only code; clients and the destination  *)
(* are the environment.                                                    *)
(***************************************************************************)
\* handoff_port_forwarding: the object is made, which picks a free port,
\* and its thread is started
handoff_port_forwarding ==
    /\ tunnel.pc = "none"
    /\ tunnel' = [tunnel EXCEPT !.pc = "started"]
    /\ UNCHANGED <<driver_vars, negotiation, api, ports>>

\* eventlet.listen(local_addr)
Listen ==
    /\ tunnel.pc = "started"
    /\ tunnel' = [tunnel EXCEPT !.pc = "accept", !.listener = "open"]
    /\ UNCHANGED <<driver_vars, negotiation, api, ports>>

\* a client connects to the local port: the kernel completes the handshake
\* into the backlog of an open listener and refuses the client otherwise
ClientConnect(k) ==
    /\ tunnel.pc # "none"
    /\ tunnel.clients[k].at = "none"
    /\ tunnel' = [tunnel EXCEPT
           !.clients[k].at = IF tunnel.listener = "open" THEN "queued"
                             ELSE "refused"]
    /\ UNCHANGED <<driver_vars, negotiation, api, ports>>

\* listener.accept() returns the connection of client k
Accept(k) ==
    /\ tunnel.pc = "accept"
    /\ tunnel.clients[k].at = "queued"
    /\ tunnel' = [tunnel EXCEPT
           !.pc = "connect", !.clients[k].at = "accepted", !.client = k,
           !.accepts = @ + 1]
    /\ UNCHANGED <<driver_vars, negotiation, api, ports>>

\* a thread that goes back to accept() after it spawned the relays
Connect_AcceptAgain(ok) ==
    /\ tunnel.pc = "connect"
    /\ tunnel.connects < MaxClients
    /\ tunnel' =
           IF ok
           THEN [tunnel EXCEPT
                    !.pc = "accept", !.server = "open",
                    !.connects = @ + 1, !.cs = "recv", !.sc = "recv",
                    !.relayed = @ \cup {tunnel.client}]
           ELSE [tunnel EXCEPT !.pc = "died", !.connects = @ + 1]
    /\ UNCHANGED <<driver_vars, negotiation, api, ports>>

\* eventlet.connect(remote_addr), the two spawn_n and the return of
\* port_forwarding; a connect that fails ends the thread with its error
Connect(ok) ==
    /\ tunnel.pc = "connect"
    /\ tunnel' =
           IF ok
           THEN [tunnel EXCEPT
                    !.pc = "returned", !.server = "open",
                    !.connects = @ + 1, !.cs = "recv", !.sc = "recv",
                    !.relayed = @ \cup {tunnel.client}]
           ELSE [tunnel EXCEPT !.pc = "died", !.connects = @ + 1]
    /\ UNCHANGED <<driver_vars, negotiation, api, ports>>

\* the listener is a local of port_forwarding and nothing closes it: the
\* socket is closed when the object is collected, some time after the
\* function has returned; the connections of its backlog are reset
ListenerCollected ==
    /\ tunnel.pc \in {"returned", "died"}
    /\ tunnel.listener = "open"
    /\ tunnel' = [tunnel EXCEPT
           !.listener = "closed",
           !.clients = [k \in Clients |->
               IF tunnel.clients[k].at = "queued"
               THEN [tunnel.clients[k] EXCEPT !.at = "refused"]
               ELSE tunnel.clients[k]]]
    /\ UNCHANGED <<driver_vars, negotiation, api, ports>>

\* forward(client, server, closed_callback): recv returns a chunk, which
\* sendall passes on (sent is whether a send to a destination that has
\* closed still goes through or raises), or recv returns '' after the
\* client closed; otherwise recv blocks
ForwardCS(sent) ==
    /\ tunnel.cs = "recv"
    /\ \/ /\ tunnel.from_client > 0
          /\ tunnel' = [tunnel EXCEPT
                 !.from_client = @ - 1,
                 !.cs = IF tunnel.server = "open" \/ sent THEN "recv"
                        ELSE "raised"]
       \/ /\ tunnel.from_client = 0
          /\ tunnel.clients[tunnel.client].closed
          /\ sent
          /\ tunnel' = [tunnel EXCEPT !.cs = "done", !.callbacks = @ + 1]
    /\ UNCHANGED <<driver_vars, negotiation, api, ports>>

\* a relay from the destination that is given closed_callback as well
ForwardSC_Callback(sent) ==
    /\ tunnel.sc = "recv"
    /\ \/ /\ tunnel.from_server > 0
          /\ tunnel' = [tunnel EXCEPT
                 !.from_server = @ - 1,
                 !.sc = IF ~tunnel.clients[tunnel.client].closed \/ sent
                        THEN "recv" ELSE "raised"]
       \/ /\ tunnel.from_server = 0
          /\ tunnel.server = "peer_closed"
          /\ sent
          /\ tunnel' = [tunnel EXCEPT !.sc = "done", !.callbacks = @ + 1]
    /\ UNCHANGED <<driver_vars, negotiation, api, ports>>

\* forward(server, client): the same loop in the other direction, with the
\* default callback, which does nothing
ForwardSC(sent) ==
    /\ tunnel.sc = "recv"
    /\ \/ /\ tunnel.from_server > 0
          /\ tunnel' = [tunnel EXCEPT
                 !.from_server = @ - 1,
                 !.sc = IF ~tunnel.clients[tunnel.client].closed \/ sent
                        THEN "recv" ELSE "raised"]
       \/ /\ tunnel.from_server = 0
          /\ tunnel.server = "peer_closed"
          /\ sent
          /\ tunnel' = [tunnel EXCEPT !.sc = "done"]
    /\ UNCHANGED <<driver_vars, negotiation, api, ports>>

\* the accepted client sends a chunk
ClientSend(k) ==
    /\ tunnel.clients[k].at = "accepted"
    /\ ~tunnel.clients[k].closed
    /\ tunnel.sent_client < MaxData
    /\ tunnel' = [tunnel EXCEPT !.from_client = @ + 1, !.sent_client = @ + 1]
    /\ UNCHANGED <<driver_vars, negotiation, api, ports>>

\* a client closes its connection
ClientClose(k) ==
    /\ tunnel.clients[k].at \in {"queued", "accepted"}
    /\ ~tunnel.clients[k].closed
    /\ tunnel' = [tunnel EXCEPT !.clients[k].closed = TRUE]
    /\ UNCHANGED <<driver_vars, negotiation, api, ports>>

\* the destination sends a chunk
DestSend ==
    /\ tunnel.server = "open"
    /\ tunnel.sent_server < MaxData
    /\ tunnel' = [tunnel EXCEPT !.from_server = @ + 1, !.sent_server = @ + 1]
    /\ UNCHANGED <<driver_vars, negotiation, api, ports>>

\* the destination closes its connection
DestClose ==
    /\ tunnel.server = "open"
    /\ tunnel' = [tunnel EXCEPT !.server = "peer_closed"]
    /\ UNCHANGED <<driver_vars, negotiation, api, ports>>

\* a step of the tunnel's own code
TunnelStep ==
    \/ Listen
    \/ \E k \in Clients : Accept(k)
    \/ \E ok \in BOOLEAN : Connect(ok)
    \/ ListenerCollected
    \/ \E sent \in BOOLEAN : ForwardCS(sent)
    \/ \E sent \in BOOLEAN : ForwardSC(sent)

(***************************************************************************)
(* PortForwarding: the local port of a tunnel, from __init__ to listen.    *)
(***************************************************************************)
\* the ports no socket is bound to: bind(('0.0.0.0', 0)) is given one of
\* them
FreePorts == {p \in EphemeralPorts : ports.bound[p] = {}}

\* handoff_port_forwarding: __init__ binds sock to port 0 and keeps the
\* port number, start() starts the thread, the port number is returned
PortForwardingInit(t, p) ==
    /\ ports.objects[t].pc = "none"
    /\ p \in FreePorts
    /\ ports' = [ports EXCEPT
           !.bound[p] = {Sock("sock", t)},
           !.objects[t] = [pc |-> "started", source_port |-> p]]
    /\ UNCHANGED <<driver_vars, negotiation, tunnel, api>>

\* sock is a local of __init__ that nothing closes or keeps: the socket is
\* closed when the object is collected, at the return of __init__ or later
SockCollected(t) ==
    /\ ports.objects[t].pc # "none"
    /\ Sock("sock", t) \in ports.bound[ports.objects[t].source_port]
    /\ ports' = [ports EXCEPT
           !.bound[ports.objects[t].source_port] = @ \ {Sock("sock", t)}]
    /\ UNCHANGED <<driver_vars, negotiation, tunnel, api>>

\* eventlet.listen(local_addr) in the thread: the bind fails with
\* EADDRINUSE while another socket is bound to the port
PortListen(t) ==
    /\ ports.objects[t].pc = "started"
    /\ LET p == ports.objects[t].source_port
       IN  ports' =
               IF ports.bound[p] = {}
               THEN [ports EXCEPT !.bound[p] = {Sock("listener", t)},
                                  !.objects[t].pc = "listening"]
               ELSE [ports EXCEPT !.objects[t].pc = "failed"]
    /\ UNCHANGED <<driver_vars, negotiation, tunnel, api>>

\* the listener of a tunnel is closed when it is collected
PortListenerCollected(t) ==
    /\ ports.objects[t].pc = "listening"
    /\ ports' = [ports EXCEPT
           !.bound[ports.objects[t].source_port] = @ \ {Sock("listener", t)},
           !.objects[t].pc = "ended"]
    /\ UNCHANGED <<driver_vars, negotiation, tunnel, api>>

\* another program of the host binds a socket to port 0 and closes it
ForeignBind(p) ==
    /\ p \in FreePorts
    /\ \A q \in EphemeralPorts : Sock("foreign", 0) \notin ports.bound[q]
    /\ ports' = [ports EXCEPT !.bound[p] = {Sock("foreign", 0)}]
    /\ UNCHANGED <<driver_vars, negotiation, tunnel, api>>

ForeignClose(p) ==
    /\ Sock("foreign", 0) \in ports.bound[p]
    /\ ports' = [ports EXCEPT !.bound[p] = @ \ {Sock("foreign", 0)}]
    /\ UNCHANGED <<driver_vars, negotiation, tunnel, api>>

(***************************************************************************)
(* CloudletAPI.cloudlet_create_base and cloudlet_create_overlay_finish:    *)
(* the snapshot requests on one instance.                                  *)
(***************************************************************************)
\* a request up to the image entries it creates in the catalog
SnapshotRequest(r, op) ==
    /\ api.requests[r].pc = "idle"
    /\ api.rpc[r] = "none"
    /\ api' = [api EXCEPT !.requests[r] =
                  [op |-> op, pc |-> "save", err |-> "", scheme |-> ""]]
    /\ UNCHANGED <<driver_vars, negotiation, tunnel, ports>>

\* cloudlet_handoff up to the cast: check_instance_state lets the request in
\* while the row holds no task state; a file destination makes the image
\* entry of the residue and goes on to the save, a tcp destination goes
\* straight to the cast, an http destination does after the negotiation
HandoffRequest(r, scheme) ==
    /\ api.requests[r].pc = "idle"
    /\ api.rpc[r] = "none"
    /\ api' = [api EXCEPT !.requests[r] =
                  IF api.task_state # ""
                  THEN [op |-> "cloudlet_handoff", pc |-> "raised",
                        err |-> "InstanceInvalidState", scheme |-> scheme]
                  ELSE [op |-> "cloudlet_handoff",
                        pc |-> IF scheme = "file" THEN "save" ELSE "rpc",
                        err |-> "", scheme |-> scheme]]
    /\ UNCHANGED <<driver_vars, negotiation, tunnel, ports>>

\* a save that writes the task state whatever the row holds
save_NoExpected(r) ==
    /\ api.requests[r].pc = "save"
    /\ api' = [api EXCEPT !.task_state = IMAGE_SNAPSHOT,
                          !.requests[r].pc = "rpc"]
    /\ UNCHANGED <<driver_vars, negotiation, tunnel, ports>>

\* instance.task_state = IMAGE_SNAPSHOT; instance.save(expected_task_state=
\* [None]): the row is updated if its task state is None, and the request
\* ends with UnexpectedTaskStateError otherwise
save(r) ==
    /\ api.requests[r].pc = "save"
    /\ api' = IF api.task_state = ""
              THEN [api EXCEPT !.task_state = IMAGE_SNAPSHOT,
                               !.requests[r].pc = "rpc"]
              ELSE [api EXCEPT !.requests[r].pc = "raised",
                               !.requests[r].err = "UnexpectedTaskStateError"]
    /\ UNCHANGED <<driver_vars, negotiation, tunnel, ports>>

\* the RPC to the compute node: cloudlet_create_base waits for its answer
\* (call), cloudlet_create_overlay_finish does not (cast)
Dispatch(r) ==
    /\ api.requests[r].pc = "rpc"
    /\ api' = [api EXCEPT
           !.rpc[r] = "running",
           !.requests[r].pc =
               IF api.requests[r].op = "cloudlet_create_base" THEN "wait"
               ELSE "done"]
    /\ UNCHANGED <<driver_vars, negotiation, tunnel, ports>>

\* the driver at the compute node: update_task_state(IMAGE_PENDING_UPLOAD,
\* expected_state=None) writes the task state whatever the row holds
ComputePendingUpload(r) ==
    /\ api.rpc[r] = "running"
    /\ api' = [api EXCEPT !.rpc[r] = "pending_upload",
                          !.task_state = IMAGE_PENDING_UPLOAD]
    /\ UNCHANGED <<driver_vars, negotiation, tunnel, ports>>

\* update_task_state(IMAGE_UPLOADING, expected_state=IMAGE_PENDING_UPLOAD)
\* writes the task state if the row holds the expected one and fails the
\* work at the compute node otherwise
ComputeUploading(r) ==
    /\ api.rpc[r] = "pending_upload"
    /\ api' = IF api.task_state = IMAGE_PENDING_UPLOAD
              THEN [api EXCEPT !.rpc[r] = "uploading",
                               !.task_state = IMAGE_UPLOADING]
              ELSE [api EXCEPT !.rpc[r] = "failed"]
    /\ UNCHANGED <<driver_vars, negotiation, tunnel, ports>>

\* the compute node ends the work of an RPC, done or failed, and clears the
\* task state
ComputeFinish(r) ==
    /\ api.rpc[r] # "none"
    /\ api' = [api EXCEPT
           !.rpc[r] = "none", !.task_state = "",
           !.requests[r].pc = IF @ = "wait" THEN "done" ELSE @]
    /\ UNCHANGED <<driver_vars, negotiation, tunnel, ports>>

\* the request returns to its caller or fails
ApiReturn(r) ==
    /\ api.requests[r].pc \in {"done", "raised"}
    /\ api.rpc[r] = "none"
    /\ api' = [api EXCEPT !.requests[r] =
                  [op |-> "none", pc |-> "idle", err |-> "", scheme |-> ""]]
    /\ UNCHANGED <<driver_vars, negotiation, tunnel, ports>>

(***************************************************************************)
(* _spawn_using_synthesis, step by step.  The image's properties are the   *)
(* empty sequence when the image has none, and a one-element sequence of   *)
(* its base_sha256_uuid (NoProperty when the key is absent) otherwise.     *)
(***************************************************************************)
BaseHashes == {"A", "B", NoProperty}
ImageProperties == {<<>>} \cup {<<h>> : h \in BaseHashes}

\* a check that compares the hashes only when the image has properties
_spawn_using_synthesis_SkipNoProperties(c, basevm_sha256, image_properties) ==
    /\ calls[c].pc = "spawn_branch"
    /\ calls[c].path = "synthesis"
    /\ calls' = [calls EXCEPT ![c] =
           IF image_properties # <<>> /\ basevm_sha256 # image_properties[1]
           THEN [@ EXCEPT !.basevm_sha256 = basevm_sha256,
                          !.image_properties = image_properties,
                          !.pc = "raised", !.err = "ImageNotFound"]
           ELSE [@ EXCEPT !.basevm_sha256 = basevm_sha256,
                          !.image_properties = image_properties,
                          !.pc = "synthesis_cache"]]
    /\ UNCHANGED <<resumed_vm_dict, synthesized_vm_dics, sessions>>

\* lines 723-741: the base hash of the overlay's metadata, the properties
\* of the image, and the check of one against the other
_spawn_using_synthesis(c, basevm_sha256, image_properties) ==
    /\ calls[c].pc = "spawn_branch"
    /\ calls[c].path = "synthesis"
    /\ calls' = [calls EXCEPT ![c] =
           IF image_properties = <<>>
           THEN [@ EXCEPT !.basevm_sha256 = basevm_sha256,
                          !.image_properties = image_properties,
                          !.pc = "raised", !.err = "ImageNotFound"]
           ELSE IF basevm_sha256 # image_properties[1]
           THEN [@ EXCEPT !.basevm_sha256 = basevm_sha256,
                          !.image_properties = image_properties,
                          !.pc = "raised", !.err = "ImageNotFound"]
           ELSE [@ EXCEPT !.basevm_sha256 = basevm_sha256,
                          !.image_properties = image_properties,
                          !.pc = "synthesis_cache"]]
    /\ UNCHANGED <<resumed_vm_dict, synthesized_vm_dics, sessions>>

\* lines 742-753: the four _get_cache_image calls; the catalog may lack one
\* of the snapshots
SynthesisCache(c, cached) ==
    /\ calls[c].pc = "synthesis_cache"
    /\ calls' = IF cached
                THEN [calls EXCEPT ![c].pc = "synthesis_resume",
                                   ![c].fetched = TRUE]
                ELSE [calls EXCEPT ![c].pc = "raised",
                                   ![c].fetched = TRUE,
                                   ![c].err = "ImageNotFound"]
    /\ UNCHANGED <<resumed_vm_dict, synthesized_vm_dics, sessions>>

\* lines 755-790: the overlay is decompressed, the launch images are
\* recovered, the SynthesizedVM is made and resumed; the hypervisor may
\* refuse the resume
SynthesisResume(c, ok) ==
    /\ calls[c].pc = "synthesis_resume"
    /\ FreeSessions # {}
    /\ sessions' = Construct(NewSession, "SynthesizedVM")
    /\ calls' = IF ok
                THEN [calls EXCEPT ![c].pc = "synthesis_register",
                                   ![c].sess = NewSession,
                                   ![c].resumed = TRUE]
                ELSE [calls EXCEPT ![c].pc = "raised",
                                   ![c].sess = NewSession,
                                   ![c].err = "libvirtError"]
    /\ UNCHANGED <<resumed_vm_dict, synthesized_vm_dics>>

\* lines 620-621: spawn registers what _spawn_using_synthesis returned
SynthesisRegister(c) ==
    /\ calls[c].pc = "synthesis_register"
    /\ synthesized_vm_dics' =
           SetItem(synthesized_vm_dics, calls[c].vm, calls[c].sess)
    /\ calls' = [calls EXCEPT ![c].pc = "done"]
    /\ UNCHANGED <<resumed_vm_dict, sessions>>

(***************************************************************************)
(* Specifications                                                          *)
(***************************************************************************)
\* the chunk of the coarse specification: all that is left to write
CoarseChunks(c) == {Len(calls[c].wout)}

Worker(c, chunks) ==
    \/ \E k \in chunks : WorkerWrite(c, k)
    \/ \E code \in ExitCodes, made \in BOOLEAN : WorkerExit(c, code, made)

Receive(c, outs, bases) ==
    \/ \E outcome \in {"ok", "HandoffError", "OSError"} :
          HandoffRecvLaunch(c, outs, bases, outcome)
    \/ RecvPoll(c)
    \/ RecvRead(c)
    \/ \E resumed \in BOOLEAN : _handoff_launch_vm(c, resumed)
    \/ RecvFinally(c)
    \/ SpawnHandoffReturn(c)

Send(c) ==
    \/ \E v \in VMs, url \in {"file", "tcp"}, found \in BOOLEAN :
          perform_vmhandoff(c, v, url, found)
    \/ PreloadStart(c)
    \/ PreloadRun(c)
    \/ \E outcome \in {"ok", "preload", "save_data", "Popen"} :
          _handoff_send(c, outcome)
    \/ SendPoll(c)
    \/ SendRead(c)
    \/ \E accepted \in BOOLEAN : HandoffUpload(c, accepted)

Overlay(c) ==
    \/ \E v \in VMs, found \in BOOLEAN : create_overlay_vm(c, v, found, TRUE)
    \/ OverlayTake(c)
    \/ \E created \in BOOLEAN : OverlayCreate(c, created)
    \/ \E accepted \in BOOLEAN : OverlayUpload(c, accepted)

Destroy(c) ==
    \/ \E v \in VMs : _destroy(c, v)
    \/ DestroyRegistry(c)

\* the overlay_url, handoff_info and memory_snap_id of one launch of each
\* kind: plain, from a base image, from an overlay, by handoff
LaunchInputs ==
    {<<FALSE, FALSE, FALSE>>, <<FALSE, FALSE, TRUE>>,
     <<TRUE, FALSE, FALSE>>, <<FALSE, TRUE, FALSE>>}

Next ==
    /\ UNCHANGED <<cache, api_vars>>
    /\ \E c \in Calls :
        \/ \E v \in VMs, launch \in LaunchInputs :
              spawn(c, v, launch[1], launch[2], launch[3])
        \/ SpawnPlain(c)
        \/ \E resumed \in BOOLEAN : resume_basevm(c, resumed)
        \/ \E outcome \in {"ok", "ImageNotFound", "libvirtError"} :
              SpawnSynthesis(c, outcome)
        \/ Receive(c, CoarseOutputs, LocalBase)
        \/ Worker(c, CoarseChunks(c))
        \/ Send(c)
        \/ Overlay(c)
        \/ Destroy(c)
        \/ Return(c)

Spec == Init /\ [][Next]_vars

\* the receive role alone: one spawn by handoff at a time, every output of
\* the worker, cut into chunks at every place
RecvNext ==
    /\ UNCHANGED <<cache, api_vars>>
    /\ \/ \E v \in VMs : spawn(1, v, FALSE, TRUE, FALSE)
       \/ Receive(1, AllOutputs, AllBases)
       \/ Worker(1, 1..Len(calls[1].wout))
       \/ Return(1)

SpecRecv == Init /\ [][RecvNext]_vars

\* the overlay role alone: spawns of base VMs, create_overlay_vm and _destroy
OverlayNext ==
    /\ UNCHANGED <<cache, api_vars>>
    /\ \E c \in Calls :
        \/ \E v \in VMs, memory_snap_id \in BOOLEAN :
              spawn(c, v, FALSE, FALSE, memory_snap_id)
        \/ SpawnPlain(c)
        \/ \E resumed \in BOOLEAN : resume_basevm(c, resumed)
        \/ \E v \in VMs, found \in BOOLEAN, detached \in BOOLEAN :
              create_overlay_vm(c, v, found, detached)
        \/ OverlayTake(c)
        \/ \E created \in BOOLEAN : OverlayCreate(c, created)
        \/ \E accepted \in BOOLEAN : OverlayUpload(c, accepted)
        \/ Destroy(c)
        \/ Return(c)

SpecOverlay == Init /\ [][OverlayNext]_vars

\* spawns of every kind that registers at once, create_overlay_vm and
\* _destroy
DestroyNext ==
    /\ UNCHANGED <<cache, api_vars>>
    /\ \E c \in Calls :
        \/ \E v \in VMs, overlay_url \in BOOLEAN, memory_snap_id \in BOOLEAN :
              spawn(c, v, overlay_url, FALSE, memory_snap_id)
        \/ SpawnPlain(c)
        \/ \E resumed \in BOOLEAN : resume_basevm(c, resumed)
        \/ \E outcome \in {"ok", "ImageNotFound", "libvirtError"} :
              SpawnSynthesis(c, outcome)
        \/ Overlay(c)
        \/ Destroy(c)
        \/ Return(c)

SpecDestroy == Init /\ [][DestroyNext]_vars

\* the cache role alone: _get_cache_image calls of any instance for any
\* snapshot id
CacheNext ==
    /\ UNCHANGED api_vars
    /\ \E c \in Calls :
        \/ \E instance \in Instances, snapshot_id \in SnapshotIds :
              _get_cache_image(c, instance, snapshot_id)
        \/ CacheLookup(c)
        \/ CacheAcquire(c)
        \/ \E ok \in BOOLEAN : CacheFetchDone(c, ok)
        \/ GetCacheImageReturn(c)
        \/ Return(c) /\ UNCHANGED cache

SpecCache == Init /\ [][CacheNext]_vars

\* the send role alone: one call at a time that spawns by synthesis and
\* hands the VM off, with the output of the worker cut at every place
SendNext ==
    /\ UNCHANGED <<cache, api_vars>>
    /\ \/ \E v \in VMs, memory_snap_id \in BOOLEAN :
             spawn(1, v, TRUE, FALSE, memory_snap_id)
       \/ \E outcome \in {"ok", "ImageNotFound", "libvirtError"} :
             SpawnSynthesis(1, outcome)
       \/ Send(1)
       \/ Worker(1, 1..Len(calls[1].wout))
       \/ Return(1)

SpecSend == Init /\ [][SendNext]_vars

\* the ticks of the two wait loops of a call
Tick(c) ==
    /\ UNCHANGED <<cache, api_vars>>
    /\ SendPoll(c) \/ SendRead(c) \/ RecvPoll(c) \/ RecvRead(c)

\* what the receiving worker prints in the specification of the wait loops
WaitOutputs ==
    {WorkerOutput(log, StatusRecord(OPENSTACK), <<>>) : log \in LogLines}

\* the two wait loops: one call at a time that spawns by synthesis or by
\* handoff and hands the VM off; the looping call runs the next tick half a
\* second after the last one returned, so a tick that can run does run
WaitNext ==
    /\ UNCHANGED <<cache, api_vars>>
    /\ \/ \E v \in VMs, handoff_info \in BOOLEAN :
             spawn(1, v, TRUE, handoff_info, FALSE)
       \/ \E outcome \in {"ok", "ImageNotFound", "libvirtError"} :
             SpawnSynthesis(1, outcome)
       \/ Receive(1, WaitOutputs, LocalBase)
       \/ Send(1)
       \/ Worker(1, 1..Len(calls[1].wout))
       \/ Return(1)

SpecWait == Init /\ [][WaitNext]_vars /\ WF_vars(Tick(1))

\* the negotiation alone, with every catalog of the destination
NegotiateNext ==
    \/ \E image_list \in SeqsUpTo(ImageItems, MaxImages) :
          _prepare_handoff_dest(image_list)
    \/ \E network_list \in SeqsUpTo(NetworkItems, MaxNetworks) :
          PrepareNetworks(network_list)
    \/ \E flavor_list \in SeqsUpTo(FlavorItems, MaxFlavors) :
          PrepareFlavors(flavor_list)
    \/ \E handoff \in {None, 1} : PrepareRequest(handoff)
    \/ HandoffCast
    \/ PrepareReturn

SpecNegotiate == Init /\ [][NegotiateNext]_vars

\* one tunnel, its clients and its destination
TunnelNext ==
    \/ handoff_port_forwarding
    \/ TunnelStep
    \/ \E k \in Clients : ClientConnect(k) \/ ClientSend(k) \/ ClientClose(k)
    \/ DestSend
    \/ DestClose

SpecTunnel == Init /\ [][TunnelNext]_vars

\* the snapshot requests of the compute API on one instance
ApiNext ==
    \E r \in Requests :
        \/ \E op \in {"cloudlet_create_base",
                       "cloudlet_create_overlay_finish"} :
              SnapshotRequest(r, op)
        \/ save(r)
        \/ Dispatch(r)
        \/ ComputePendingUpload(r)
        \/ ComputeUploading(r)
        \/ ComputeFinish(r)
        \/ ApiReturn(r)

SpecApi == Init /\ [][ApiNext]_vars

\* the handoff requests on one instance, to destinations of every scheme
ApiHandoffNext ==
    \E r \in Requests :
        \/ \E scheme \in {"file", "tcp", "http"} : HandoffRequest(r, scheme)
        \/ save(r)
        \/ Dispatch(r)
        \/ ComputePendingUpload(r)
        \/ ComputeUploading(r)
        \/ ComputeFinish(r)
        \/ ApiReturn(r)

SpecApiHandoff == Init /\ [][ApiHandoffNext]_vars

\* spawns by synthesis from overlays and images of every kind
SynthesisNext ==
    /\ UNCHANGED <<cache, api_vars>>
    /\ \E c \in Calls :
        \/ \E v \in VMs : spawn(c, v, TRUE, FALSE, FALSE)
        \/ \E basevm_sha256 \in BaseHashes,
              image_properties \in ImageProperties :
              _spawn_using_synthesis(c, basevm_sha256, image_properties)
        \/ \E cached \in BOOLEAN : SynthesisCache(c, cached)
        \/ \E ok \in BOOLEAN : SynthesisResume(c, ok)
        \/ SynthesisRegister(c)
        \/ Return(c)

SpecSynthesis == Init /\ [][SynthesisNext]_vars

\* one spawn at a time, of every combination of overlay_url, handoff_info
\* and memory_snap_id, up to its return
SpawnNext ==
    /\ UNCHANGED <<cache, api_vars>>
    /\ \/ \E v \in VMs, overlay_url \in BOOLEAN, handoff_info \in BOOLEAN,
             memory_snap_id \in BOOLEAN :
             spawn(1, v, overlay_url, handoff_info, memory_snap_id)
       \/ SpawnPlain(1)
       \/ \E resumed \in BOOLEAN : resume_basevm(1, resumed)
       \/ \E outcome \in {"ok", "ImageNotFound", "libvirtError"} :
             SpawnSynthesis(1, outcome)
       \/ Receive(1, CoarseOutputs, LocalBase)
       \/ Worker(1, CoarseChunks(1))
       \/ Return(1)

SpecSpawn == Init /\ [][SpawnNext]_vars

\* the tunnels of concurrent handoffs and the other sockets of the host
PortsNext ==
    \/ \E t \in Forwardings :
          \/ \E p \in EphemeralPorts : PortForwardingInit(t, p)
          \/ SockCollected(t)
          \/ PortListen(t)
          \/ PortListenerCollected(t)
    \/ \E p \in EphemeralPorts : ForeignBind(p) \/ ForeignClose(p)

SpecPorts == Init /\ [][PortsNext]_vars

(***************************************************************************)
(* Properties                                                              *)
(***************************************************************************)
HandoffCalls == {c \in Calls : calls[c].op = "perform_vmhandoff"}
OverlayCalls == {c \in Calls : calls[c].op = "create_overlay_vm"}
Ended(c) == calls[c].pc \in {"done", "raised"}

\* C1: at most one session per VM identifier: no identifier is a key of
\* resumed_vm_dict and of synthesized_vm_dics at the same time.
C1_AtMostOneSession ==
    \A v \in VMs :
        ~(resumed_vm_dict[v] # None /\ synthesized_vm_dics[v] # None)

\* C2: no session is the subject of two handoffs: two perform_vmhandoff
\* calls never both launch a transfer worker for the same session.
C2_ExclusiveHandoff ==
    \A c1 \in HandoffCalls, c2 \in HandoffCalls :
        (c1 # c2 /\ calls[c1].proc # "none" /\ calls[c2].proc # "none")
            => calls[c1].sess # calls[c2].sess

\* C5: a send-side worker that exited with a nonzero code makes
\* perform_vmhandoff fail: the call raises, it has removed no session and
\* uploaded no residue.
C5_NonzeroExitFails ==
    \A c \in HandoffCalls :
        (calls[c].proc = "exited" /\ calls[c].returncode # 0
            /\ calls[c].pc \notin {"send_wait", "send_select"})
            => (calls[c].pc = "raised" /\ ~calls[c].removed
                   /\ ~calls[c].uploaded)

\* C9: once perform_vmhandoff has ended, on any path, the directory made by
\* _handoff_send, the request file in it and the residue archive are gone.
C9_SendCleanup ==
    \A c \in HandoffCalls :
        Ended(c) => (~calls[c].tmp_dir /\ ~calls[c].datafile
                        /\ ~calls[c].zipfile)

\* C3: overlay synthesis takes the session atomically: the step that takes
\* it leaves the key absent, a taken session is in no registry, no session
\* has create_overlay() called on it twice, and a call that took no session
\* has failed with InstanceNotRunning.
C3_OverlayTakeAtomic ==
    /\ [](/\ \A s \in Sessions : sessions[s].overlays <= 1
          /\ \A c \in OverlayCalls :
                /\ calls[c].sess # None
                      => \A v \in VMs : resumed_vm_dict[v] # calls[c].sess
                /\ (calls[c].pc = "raised" /\ calls[c].sess = None)
                      => calls[c].err = "InstanceNotRunning")
    /\ [][\A c \in Calls :
            (calls[c].pc = "overlay_take" /\ calls'[c].pc = "overlay_create")
                => resumed_vm_dict'[calls[c].vm] = None]_vars

\* two create_overlay_vm calls on one VM: one took the session and called
\* create_overlay(), the other found nothing and raised
C3_Witness ==
    \E c1 \in OverlayCalls, c2 \in OverlayCalls :
        /\ c1 # c2
        /\ calls[c1].vm = calls[c2].vm
        /\ calls[c1].sess # None
        /\ sessions[calls[c1].sess].overlays = 1
        /\ calls[c2].pc = "raised"
        /\ calls[c2].sess = None

\* C4: on the send side the session is removed only once the worker has
\* exited, and a perform_vmhandoff whose _handoff_send raised has failed
\* without removing the session: the raising step leaves the registry as
\* it was.
C4_RemovedAfterExit ==
    /\ [](\A c \in HandoffCalls :
             /\ calls[c].removed => calls[c].proc = "exited"
             /\ calls[c].exc # ""
                   => (calls[c].pc = "raised" /\ calls[c].err # ""
                          /\ ~calls[c].removed))
    /\ [][\A c \in Calls :
            (calls[c].pc = "send_join" /\ calls'[c].pc = "raised")
                => synthesized_vm_dics' = synthesized_vm_dics]_vars

\* one handoff failed in _handoff_send with its session still registered
C4_Witness ==
    \E c \in HandoffCalls :
        /\ calls[c].pc = "raised"
        /\ calls[c].exc = "HandoffError"
        /\ synthesized_vm_dics[calls[c].vm] = calls[c].sess

RecvCalls ==
    {c \in Calls : calls[c].op = "spawn" /\ calls[c].path = "handoff"}

\* the worker of the call has exited and _handoff_recv has seen it
RecvExited(c) ==
    /\ calls[c].proc = "exited"
    /\ calls[c].pc \notin {"recv_wait", "recv_select"}

\* C6: on the receive side a worker that exited with a nonzero code makes
\* _handoff_recv raise HandoffError without parsing; no domain is launched
\* and the spawn registers no session: it ends with the handoff failure and
\* none of its steps touches synthesized_vm_dics.
C6_RecvNonzeroExit ==
    /\ [](\A c \in RecvCalls :
             (RecvExited(c) /\ calls[c].returncode # 0)
                 => /\ calls[c].exc = "HandoffError"
                    /\ ~calls[c].parsed
                    /\ calls[c].ret = <<>>
                    /\ calls[c].sess = None
                    /\ calls[c].pc # "done"
                    /\ calls[c].pc \in {"recv_return", "raised"}
                          => calls[c].err = "ImageNotFound")
    /\ [][\A c \in Calls :
            (calls[c].op = "spawn" /\ calls[c].proc = "exited"
                /\ calls[c].returncode # 0 /\ calls'[c] # calls[c])
                => synthesized_vm_dics' = synthesized_vm_dics]_vars

\* a spawn failed although the worker had printed a well-formed status line
C6_Witness ==
    \E c \in RecvCalls :
        /\ calls[c].pc = "raised"
        /\ calls[c].returncode = 1
        /\ calls[c].wlast = StatusRecord(OPENSTACK)
        /\ calls[c].stdout_buf # <<>>

\* the spellings of the sentinel among the keywords the worker prints
SentinelSpellings == {OPENSTACK, openstack, OpenStack}

\* C7: when the worker exited with code 0 and its final line is a record of
\* five fields, _handoff_recv returns fields 2 to 5 as printed if field 1 is
\* a spelling of "openstack", and raises HandoffError for any other keyword.
C7_ParseStatusLine ==
    \A c \in RecvCalls :
        (RecvExited(c) /\ calls[c].returncode = 0 /\ Len(calls[c].wlast) = 5)
            => IF calls[c].wlast[1] \in SentinelSpellings
               THEN calls[c].ret = Tail(calls[c].wlast)
               ELSE /\ calls[c].ret = <<>>
                    /\ calls[c].exc = "HandoffError"

\* a mixed-case keyword after log lines was accepted and its fields returned
C7_Witness ==
    \E c \in RecvCalls :
        /\ calls[c].pc = "recv_launch"
        /\ calls[c].wlast[1] = OpenStack
        /\ calls[c].ret = Sizes
        /\ Len(calls[c].stdout_buf) > Len(join(calls[c].wlast))

\* C8: when the worker exited with code 0 and the last newline-separated
\* segment of its output has not exactly five fields, _handoff_recv raises
\* HandoffError.
C8_MalformedIsHandoffError ==
    \A c \in RecvCalls :
        (RecvExited(c) /\ calls[c].returncode = 0 /\ Len(calls[c].wlast) # 5)
            => calls[c].exc = "HandoffError"

\* C10: once _spawn_using_handoff has ended, on any path, the request
\* directory, the request file, the launch-disk file and the launch-memory
\* file are gone, and they are gone before the error reaches spawn's caller.
C10_RecvCleanup ==
    \A c \in RecvCalls :
        calls[c].pc \in {"recv_return", "done", "raised"}
            => (~calls[c].tmp_dir /\ ~calls[c].datafile
                   /\ ~calls[c].launch_disk /\ ~calls[c].launch_mem)

\* a spawn by handoff ended with an error that is not a HandoffError
C10_Witness ==
    \E c \in RecvCalls :
        /\ calls[c].pc = "raised"
        /\ calls[c].proc = "exited"
        /\ calls[c].err = "ValueError"

\* C11: preloading is a join point of _handoff_send: the request file is
\* not written and the transfer worker is not launched before the preload
\* task has completed, and the dictionaries serialized into the request are
\* the ones the completed preload produced.
C11_PreloadJoin ==
    \A c \in HandoffCalls :
        /\ (calls[c].datafile \/ calls[c].proc # "none")
              => calls[c].preload = "done"
        /\ calls[c].datafile => calls[c].request = "dicts"
        /\ calls[c].request # "unset"

\* one handoff has its worker running on a request written after the
\* preload, while another still waits in the join
C11_Witness ==
    \E c1 \in HandoffCalls, c2 \in HandoffCalls :
        /\ calls[c1].proc = "running"
        /\ calls[c1].datafile
        /\ calls[c1].request = "dicts"
        /\ calls[c2].pc = "send_join"
        /\ calls[c2].preload = "running"

\* a call is inside a tick of its wait loop, at the select
InTick(c) == calls[c].pc \in {"send_select", "recv_select"}

\* C12: a poll tick of the send and receive wait loops reads without
\* blocking: while the worker is alive, and even when it has written
\* nothing, the tick can return.
C12_TickReturns ==
    \A c \in Calls :
        (InTick(c) /\ calls[c].proc = "running")
            => ENABLED (SendRead(c) \/ RecvRead(c))

\* the sessions registered for a VM, of either variant
Registered(v) == {resumed_vm_dict[v], synthesized_vm_dics[v]} \ {None}

\* C13: when _destroy(vm) returns, vm is a key of neither registry and every
\* session that was registered for vm has had terminate() called in the
\* step that removed it; a _destroy that finds no session changes neither
\* registry and terminates nothing; no session is terminated twice.
C13_DestroyTearsDown ==
    /\ [](\A s \in Sessions : sessions[s].terminated <= 1)
    /\ [][\A c \in Calls :
            (calls[c].pc = "destroy_registry" /\ calls'[c].pc = "done")
                => LET v == calls[c].vm
                   IN  /\ resumed_vm_dict'[v] = None
                       /\ synthesized_vm_dics'[v] = None
                       /\ \A s \in Registered(v) :
                             sessions'[s].terminated
                                 = sessions[s].terminated + 1
                       /\ \A s \in Sessions \ Registered(v) :
                             sessions'[s] = sessions[s]
                       /\ Registered(v) = {}
                             => UNCHANGED <<resumed_vm_dict,
                                            synthesized_vm_dics, sessions>>]_vars

\* a _destroy that tore down a session of each variant, followed by a
\* _destroy of the same VM that found nothing
C13_Witness ==
    \E c \in Calls :
        /\ calls[c].op = "_destroy"
        /\ calls[c].pc = "done"
        /\ ~calls[c].removed
        /\ Registered(calls[c].vm) = {}
        /\ \E s1 \in Sessions, s2 \in Sessions :
              /\ sessions[s1].kind = "VM_Overlay"
              /\ sessions[s2].kind = "SynthesizedVM"
              /\ sessions[s1].terminated = 1
              /\ sessions[s2].terminated = 1

C15_AllOrNothing ==
    \A c \in OverlayCalls \cup HandoffCalls :
        (Ended(c) /\ calls[c].removed)
            => \/ calls[c].uploaded
               \/ /\ calls[c].op = "perform_vmhandoff"
                  /\ calls[c].proc = "exited"
                  /\ calls[c].returncode = 0

\* C16: in create_overlay_vm the local overlay archive is removed only once
\* the upload has succeeded: when _update_to_glance raises, the call raises
\* and the archive is still there.
C16_ArchiveKeptOnFailure ==
    /\ [](\A c \in OverlayCalls :
             /\ calls[c].err = "ImageServiceError"
                   => (calls[c].pc = "raised" /\ calls[c].zipfile
                          /\ ~calls[c].uploaded)
             /\ calls[c].pc = "done"
                   => (calls[c].uploaded /\ ~calls[c].zipfile))
    /\ [][\A c \in Calls :
            (calls[c].op = "create_overlay_vm" /\ calls[c].zipfile
                /\ calls'[c].op = "create_overlay_vm" /\ ~calls'[c].zipfile)
                => calls'[c].uploaded]_vars

\* the upload of an overlay was refused and the archive is kept
C16_Witness ==
    \E c \in OverlayCalls :
        /\ calls[c].pc = "raised"
        /\ calls[c].err = "ImageServiceError"
        /\ calls[c].zipfile
        /\ sessions[calls[c].sess].overlays = 1

\* C17: a registration never replaces a session: a step taken while a VM
\* has a registered session leaves that VM with no session it did not have.
C17_NoSilentReplace ==
    [][\A v \in VMs :
          Registered(v) # {}
              => {resumed_vm_dict'[v], synthesized_vm_dics'[v]} \ {None}
                     \subseteq Registered(v)]_vars

CacheCalls == {c \in Calls : calls[c].op = "_get_cache_image"}

\* C19: cache fetch is idempotent: _get_cache_image calls with the same
\* snapshot id, from whatever instance, return the same path, and once the
\* file of a snapshot id is cached it is transferred no more: each file is
\* transferred to the end at most once.
C19_FetchIdempotent ==
    /\ [](/\ \A c1 \in CacheCalls, c2 \in CacheCalls :
                (calls[c1].pc = "done" /\ calls[c2].pc = "done"
                    /\ calls[c1].snapshot_id = calls[c2].snapshot_id)
                    => calls[c1].abspath = calls[c2].abspath
          /\ \A c1 \in CacheCalls, c2 \in CacheCalls :
                (calls[c1].pc = "done" /\ calls[c2].pc = "done"
                    /\ calls[c1].snapshot_id # calls[c2].snapshot_id)
                    => calls[c1].abspath # calls[c2].abspath
          /\ \A f \in Fnames : cache[f].transfers <= 1)
    /\ [][\A f \in Fnames :
            cache[f].state = "complete" => cache'[f] = cache[f]]_vars

\* two instances were returned the path of the same snapshot id after one
\* transfer
C19_Witness ==
    \E c1 \in CacheCalls, c2 \in CacheCalls :
        /\ calls[c1].pc = "done"
        /\ calls[c2].pc = "done"
        /\ calls[c1].instance # calls[c2].instance
        /\ calls[c1].snapshot_id = calls[c2].snapshot_id
        /\ calls[c1].abspath = calls[c2].abspath
        /\ cache[calls[c1].fname].transfers = 1

\* C20: no _get_cache_image call is returned the path of a file that is not
\* completely written; while a file is being written one call holds its
\* lock, and a call that finds the lock taken waits and then uses the file
\* instead of fetching again.
C20_NoPartialPath ==
    /\ [](/\ \A c \in CacheCalls :
                calls[c].pc \in {"cache_returned", "done"}
                    => cache[calls[c].fname].state = "complete"
          /\ \A f \in Fnames :
                /\ Cardinality({c \in CacheCalls :
                       calls[c].pc = "cache_fetch" /\ calls[c].fname = f}) <= 1
                /\ cache[f].state = "partial"
                      <=> \E c \in CacheCalls :
                             /\ calls[c].pc = "cache_fetch"
                             /\ calls[c].fname = f
                             /\ cache[f].lock = c)
    /\ [][\A c \in Calls :
            (calls[c].pc = "cache_lock" /\ calls'[c].pc = "cache_fetch")
                => cache[calls[c].fname].state = "absent"]_vars

\* while one call writes the file another waits for the lock on it
C20_Witness ==
    \E c1 \in CacheCalls, c2 \in CacheCalls :
        /\ calls[c1].pc = "cache_fetch"
        /\ calls[c2].pc = "cache_lock"
        /\ calls[c1].fname = calls[c2].fname
        /\ cache[calls[c1].fname].state = "partial"


\* the networks of a catalog that belong to the project of the instance and
\* bear the requested name
MatchingNetworks(network_list) ==
    {i \in 1..Len(network_list) :
        /\ network_list[i].project_id = instance_project_id
        /\ network_list[i].name = dest_network}

\* C21: whenever the destination has a network of the instance's project
\* with the requested name, anywhere in its list, the negotiation selects
\* such a network; whenever it has none, the empty list and a list without
\* a network of that project included, the negotiation fails with
\* HandoffError.
C21_NetworkNegotiation ==
    negotiation.stage = "networks"
        => IF MatchingNetworks(negotiation.response) # {}
           THEN /\ negotiation.exc = ""
                /\ negotiation.network_uuid
                       \in MatchingNetworks(negotiation.response)
           ELSE negotiation.exc = "HandoffError"

\* the flavors of a catalog with the vcpus and the ram of the instance
MatchingFlavors(flavor_list) ==
    {i \in 1..Len(flavor_list) :
        /\ flavor_list[i].vcpus = flavor_cpu
        /\ flavor_list[i].ram = flavor_memory}

\* C22: the flavor selected has exactly the vcpus and the memory of the
\* source instance and is the first such flavor of the list; when no flavor
\* matches exactly the negotiation fails with HandoffError and selects
\* nothing.
C22_ExactFlavor ==
    negotiation.stage = "flavors"
        => IF MatchingFlavors(negotiation.response) = {}
           THEN /\ negotiation.pc = "raised"
                /\ negotiation.exc = "HandoffError"
                /\ negotiation.flavor_id = None
           ELSE /\ negotiation.exc = ""
                /\ negotiation.flavor_id
                       \in MatchingFlavors(negotiation.response)
                /\ \A j \in MatchingFlavors(negotiation.response) :
                       negotiation.flavor_id <= j

\* a larger flavor comes first and fails; the exact one behind it is taken
C22_Witness ==
    /\ negotiation.stage = "flavors"
    /\ negotiation.response = <<[vcpus |-> 4, ram |-> 8192],
                                [vcpus |-> 2, ram |-> 4096]>>
    /\ negotiation.flavor_id = 2
    /\ negotiation.pc = "request"

\* the base disk images of a catalog made from the requested base
MatchingImages(image_list) ==
    {i \in 1..Len(image_list) :
        /\ image_list[i].cloudlet_type = IMAGE_TYPE_BASE_DISK
        /\ image_list[i].base_sha256_uuid = requested_basevm_id}

\* C23: the image selected is a base disk image whose base_sha256_uuid is
\* the base hash the source instance asks for; when no image of the
\* destination is both, the negotiation fails with HandoffError.
C23_BaseImage ==
    negotiation.stage = "images"
        => IF MatchingImages(negotiation.response) = {}
           THEN /\ negotiation.pc = "raised"
                /\ negotiation.exc = "HandoffError"
           ELSE /\ negotiation.exc = ""
                /\ negotiation.basevm_uuid
                       \in MatchingImages(negotiation.response)

\* the memory image of the requested base comes first and is passed over
C23_Witness ==
    /\ negotiation.stage = "images"
    /\ negotiation.response =
           <<[cloudlet_type |-> IMAGE_TYPE_BASE_MEM, base_sha256_uuid |-> "A"],
             [cloudlet_type |-> IMAGE_TYPE_BASE_DISK,
              base_sha256_uuid |-> "A"]>>
    /\ negotiation.basevm_uuid = 2
    /\ negotiation.pc = "networks"


\* a tunnel whose destination closed right after the connect, while the
\* client it serves neither sent nor closed
DestClosedFirst ==
    /\ tunnel.server = "peer_closed"
    /\ tunnel.sent_client = 0
    /\ tunnel.sent_server = 0
    /\ ~tunnel.clients[tunnel.client].closed

\* C24: when the destination closes right after the tunnel connected to it,
\* the tunnel comes to rest, with the client still connected and silent,
\* only with both relay directions ended and the local port released.
C24_SelfTermination ==
    (DestClosedFirst /\ ~ENABLED TunnelStep)
        => /\ tunnel.cs \in {"done", "raised"}
           /\ tunnel.sc \in {"done", "raised"}
           /\ tunnel.listener = "closed"

\* C25: over its lifetime a tunnel accepts one connection and opens one
\* connection to the destination; only the client it accepted is relayed,
\* and no other client is ever accepted.
C25_OneClient ==
    /\ tunnel.accepts <= 1
    /\ tunnel.connects <= 1
    /\ Cardinality(tunnel.relayed) <= 1
    /\ \A k \in Clients :
          tunnel.clients[k].at = "accepted" => k = tunnel.client

\* the tunnel relays its client while a second client has connected to the
\* local port and waits in the backlog
C25_Witness ==
    /\ tunnel.relayed = {1}
    /\ tunnel.cs = "recv"
    /\ tunnel.clients[2].at = "queued"
    /\ tunnel.pc = "returned"


\* the requests that passed their save and whose RPC has not ended
Dispatching ==
    {r \in Requests : api.requests[r].pc = "rpc" \/ api.rpc[r] # "none"}

\* C26: at most one snapshot request at a time is past its save or at the
\* compute node, and the task state is set all that time; a request that
\* finds a task state at its save fails and sends no RPC.
C26_NoDuplicateSnapshot ==
    /\ [](/\ Cardinality(Dispatching) <= 1
          /\ Dispatching # {} => api.task_state # "")
    /\ [][\A r \in Requests :
             (api.requests[r].pc = "save" /\ api.task_state # "")
                 => /\ api.requests'[r].pc \in {"save", "raised"}
                    /\ api.rpc'[r] = "none"]_vars

\* cloudlet_create_base waits for the compute node while a
\* cloudlet_create_overlay_finish on the same instance has failed
C26_Witness ==
    /\ api.requests[1].op = "cloudlet_create_base"
    /\ api.requests[1].pc = "wait"
    /\ api.rpc[1] = "uploading"
    /\ api.requests[2].op = "cloudlet_create_overlay_finish"
    /\ api.requests[2].pc = "raised"
    /\ api.requests[2].err = "UnexpectedTaskStateError"
    /\ api.rpc[2] = "none"


\* the worker of the call exited with code 0, its status line was parsed
\* and the domain was resumed into a SynthesizedVM session
RecvSucceeded(c) ==
    /\ calls[c].proc = "exited"
    /\ calls[c].returncode = 0
    /\ calls[c].parsed
    /\ calls[c].exc = ""
    /\ calls[c].sess # None
    /\ sessions[calls[c].sess].kind = "SynthesizedVM"

\* C27: on the receive side synthesized_vm_dics changes only by the return
\* of a spawn whose worker exited with code 0, whose status line was parsed
\* and whose domain was resumed, and the entry made is that session; a
\* spawn where one of these steps failed ends with an error and has left
\* synthesized_vm_dics as it was.
C27_RegisterAfterResume ==
    /\ [](\A c \in RecvCalls :
             Ended(c) => (calls[c].pc = "done" <=> RecvSucceeded(c)))
    /\ [][\A v \in VMs :
             synthesized_vm_dics'[v] # synthesized_vm_dics[v]
                 => \E c \in RecvCalls :
                       /\ calls[c].vm = v
                       /\ calls[c].pc = "recv_return"
                       /\ RecvSucceeded(c)
                       /\ calls'[c].pc = "done"
                       /\ synthesized_vm_dics'[v] = calls[c].sess]_vars

\* a spawn by handoff has registered the session of its resumed domain
C27_Witness ==
    \E c \in RecvCalls :
        /\ calls[c].pc = "done"
        /\ RecvSucceeded(c)
        /\ synthesized_vm_dics[calls[c].vm] = calls[c].sess
        /\ calls[c].stdout_buf # <<>>


\* C28: the residue exists exactly for the file scheme: the API passes an
\* image id for the residue iff the scheme is file, the value _handoff_send
\* has returned is a path iff the scheme is file, and a tcp handoff uploads
\* nothing and never has the task state IMAGE_UPLOADING.
C28_ResidueOnlyForFile ==
    \A c \in HandoffCalls :
        /\ calls[c].residue_glance_id <=> calls[c].handoff_url = "file"
        /\ calls[c].residue_filepath
               <=> (/\ calls[c].handoff_url = "file"
                    /\ calls[c].proc = "exited"
                    /\ calls[c].pc \in {"send_upload", "done", "raised"})
        /\ calls[c].handoff_url = "tcp"
               => /\ ~calls[c].uploaded
                  /\ calls[c].task_state # IMAGE_UPLOADING
        /\ calls[c].uploaded => calls[c].task_state = IMAGE_UPLOADING

\* a tcp handoff has ended: the session is gone and nothing was uploaded
C28_Witness ==
    \E c \in HandoffCalls :
        /\ calls[c].pc = "done"
        /\ calls[c].handoff_url = "tcp"
        /\ calls[c].removed
        /\ calls[c].returncode = 0
        /\ calls[c].task_state = IMAGE_PENDING_UPLOAD


\* the call is in the wait loop of _handoff_send or of _handoff_recv
InWaitLoop(c) ==
    calls[c].pc \in {"send_wait", "send_select", "recv_wait", "recv_select"}

\* C29: while the transfer worker runs, _handoff_send and _handoff_recv stay
\* in their wait loops, for the loops have no timeout; once the worker has
\* exited, the ticks being scheduled fairly, the call leaves its loop:
\* _handoff_send or _handoff_recv returns or raises.
C29_WaitLoops ==
    /\ [](\A c \in Calls : calls[c].proc = "running" => InWaitLoop(c))
    /\ \A c \in Calls : (calls[c].proc = "exited") ~> ~InWaitLoop(c)

\* a receiving worker was killed after it had printed its output, and
\* _handoff_recv has left its loop and raised
C29_Witness ==
    \E c \in RecvCalls :
        /\ calls[c].proc = "exited"
        /\ calls[c].returncode = -15
        /\ calls[c].pc = "recv_finally"
        /\ calls[c].exc = "HandoffError"
        /\ calls[c].stdout_buf \in {o.text : o \in WaitOutputs}


\* what the worker of a call has printed and will print, in order: the text
\* buffered, the text in the pipe and the text not yet written
WorkerText(c) == calls[c].stdout_buf \o calls[c].pipe \o calls[c].wout

\* C30: on the receive side no step loses, repeats or reorders a character
\* of the worker's output on its way into stdout_buf, and once the worker
\* has exited and the loop has ended stdout_buf is the whole output, however
\* it was cut into chunks: its last line has the fields the worker put
\* there, and they are the fields returned when the parse succeeds.
C30_BuffersAllOutput ==
    /\ [](\A c \in RecvCalls :
             RecvExited(c)
                 => /\ calls[c].pipe = <<>>
                    /\ calls[c].wout = <<>>
                    /\ calls[c].stdout_buf \in {o.text : o \in AllOutputs}
                    /\ LastFields(calls[c].stdout_buf) = calls[c].wlast
                    /\ calls[c].ret # <<>>
                           => calls[c].ret = Tail(calls[c].wlast))
    /\ [][\A c \in Calls :
             (calls[c].proc # "none" /\ calls'[c].proc # "none")
                 => WorkerText(c)' = WorkerText(c)]_vars

\* an output of a log line and a status line, written in chunks cut at any
\* place, was buffered whole and its status line was parsed
C30_Witness ==
    \E c \in RecvCalls :
        /\ calls[c].pc = "recv_launch"
        /\ calls[c].stdout_buf =
               WorkerOutput(<<"l", "o", "g", NL>>, StatusRecord(OpenStack),
                            <<>>).text
        /\ calls[c].ret = Tail(StatusRecord(OpenStack))

\* C31: with an http destination the create-server request is posted only
\* after the image, network and flavor lookups have all succeeded; whenever
\* the negotiation fails (a lookup finds nothing, or the reply carries no
\* handoff address) the error that reaches the caller is HandoffError and
\* nothing was cast to the compute node; a cast follows a reply with an
\* address only.
C31_NegotiationAborts ==
    /\ negotiation.posted
           => /\ negotiation.basevm_uuid # None
              /\ negotiation.network_uuid \notin {Unbound, None}
              /\ negotiation.flavor_id # None
    /\ negotiation.pc = "raised"
           => /\ negotiation.exc = "HandoffError"
              /\ ~negotiation.cast
    /\ negotiation.cast => negotiation.posted /\ negotiation.handoff # None

\* C32: a zero-length read ends the relay that read it and leaves the other
\* relay where it was; closed_callback has run once when the relay from the
\* client has read zero length and has not run otherwise, whatever the relay
\* from the destination has read.
C32_CallbackOnce ==
    /\ [](tunnel.callbacks = IF tunnel.cs = "done" THEN 1 ELSE 0)
    /\ [][((tunnel.sc # "done" /\ tunnel'.sc = "done")
              => (tunnel'.cs = tunnel.cs
                  /\ tunnel'.callbacks = tunnel.callbacks))
          /\ ((tunnel.cs # "done" /\ tunnel'.cs = "done")
              => tunnel'.sc = tunnel.sc)]_vars

\* both ends have closed, the destination first: one callback
C32_Witness ==
    /\ tunnel.sc = "done"
    /\ tunnel.cs = "done"
    /\ tunnel.callbacks = 1

\* C33: whatever _destroy or a second perform_vmhandoff does to the same VM
\* in between, a perform_vmhandoff whose worker has finished finds the key
\* of its session at the removal: it never ends with a missing-key error,
\* which would skip the residue upload and the removal of the residue file.
C33_RemovalFindsKey ==
    \A c \in HandoffCalls :
        (calls[c].proc = "exited" /\ Ended(c))
            => /\ calls[c].err # "KeyError"
               /\ (calls[c].err = "" => calls[c].removed)

\* a create_overlay_vm call that has taken a session and has not ended
HoldsTaken(c) ==
    /\ calls[c].op = "create_overlay_vm"
    /\ calls[c].sess # None
    /\ calls[c].pc \in {"overlay_create", "overlay_upload"}

\* C34: when _destroy(vm) runs while a create_overlay_vm call holds the
\* session it took for vm, the session's resources are terminated exactly
\* once: not left unreleased, not terminated twice.
C34_DestroyDuringSynthesis ==
    [][\A c \in Calls, d \in Calls :
          (/\ HoldsTaken(c)
           /\ calls[d].op = "_destroy"
           /\ calls[d].vm = calls[c].vm
           /\ calls[d].pc = "destroy_registry"
           /\ calls'[d].pc = "done")
              => sessions'[calls[c].sess].terminated = 1]_vars

\* the handoff requests whose cast is prepared or is at the compute node
HandoffDispatching ==
    {r \in Requests :
        /\ api.requests[r].op = "cloudlet_handoff"
        /\ api.requests[r].pc = "rpc" \/ api.rpc[r] # "none"}

\* C35: for a destination of any scheme a cloudlet_handoff request reaches
\* its cast with the task state set, so no two handoff requests of the
\* instance are dispatched at the same time.
C35_HandoffGuarded ==
    /\ \A r \in Requests :
           (api.requests[r].op = "cloudlet_handoff"
               /\ api.requests[r].pc = "rpc") => api.task_state # ""
    /\ \A r1 \in HandoffDispatching, r2 \in HandoffDispatching : r1 = r2

\* C36: a create_overlay_vm call that fails because no ResumedBase session
\* is registered for the VM has not paused the VM, has not detached its
\* bridge interface and has not set the task state to IMAGE_PENDING_UPLOAD.
C36_FailedOverlayLeavesVM ==
    \A c \in OverlayCalls :
        (/\ calls[c].pc = "raised"
         /\ calls[c].err = "InstanceNotRunning"
         /\ calls[c].sess = None)
            => /\ ~calls[c].paused
               /\ ~calls[c].detached
               /\ calls[c].task_state # IMAGE_PENDING_UPLOAD

\* the overlay of a synthesis spawn does not fit the image: the image has
\* no properties, or the base hash of the overlay's metadata is not the
\* image's base_sha256_uuid
Incompatible(c) ==
    /\ calls[c].op = "spawn"
    /\ calls[c].path = "synthesis"
    /\ calls[c].pc # "spawn_branch"
    /\ \/ calls[c].image_properties = <<>>
       \/ calls[c].basevm_sha256 # calls[c].image_properties[1]

\* C37: a synthesis spawn whose overlay does not fit the image raises
\* ImageNotFound with nothing fetched into the cache, no VM resumed and no
\* session made, and registers nothing in either registry.
C37_RejectsIncompatible ==
    /\ [](\A c \in Calls :
             Incompatible(c)
                 => /\ calls[c].pc = "raised"
                    /\ calls[c].err = "ImageNotFound"
                    /\ ~calls[c].fetched
                    /\ ~calls[c].resumed
                    /\ calls[c].sess = None)
    /\ [][\A c \in Calls :
             (calls'[c] # calls[c] /\ (Incompatible(c))')
                 => UNCHANGED <<synthesized_vm_dics, resumed_vm_dict,
                                sessions>>]_vars

\* one overlay is turned down for its hash while another spawn, whose
\* overlay and image both lack the hash, has gone on to the cache
C37_Witness ==
    /\ Incompatible(1)
    /\ calls[1].basevm_sha256 = "A"
    /\ calls[1].image_properties = <<"B">>
    /\ calls[1].err = "ImageNotFound"
    /\ calls[2].basevm_sha256 = NoProperty
    /\ calls[2].image_properties = <<NoProperty>>
    /\ calls[2].fetched

\* C38: a spawn takes the handoff path when handoff_info is present, with
\* or without overlay_url; otherwise the synthesis path when overlay_url is
\* present; otherwise the base path when the image names a base memory
\* snapshot; otherwise the plain path.  A step of a handoff or synthesis
\* spawn leaves resumed_vm_dict alone and its last step registers in
\* synthesized_vm_dics; a step of a base spawn leaves synthesized_vm_dics
\* alone and its last step registers in resumed_vm_dict; a plain spawn
\* changes neither registry and makes no session.
C38_LaunchPrecedence ==
    /\ [](\A c \in Calls :
             calls[c].op = "spawn"
                 => calls[c].path =
                        IF calls[c].handoff_info THEN "handoff"
                        ELSE IF calls[c].overlay_url THEN "synthesis"
                        ELSE IF calls[c].memory_snap_id THEN "base"
                        ELSE "plain")
    /\ [][\A c \in Calls :
             (calls[c].op = "spawn" /\ calls'[c] # calls[c])
                 => /\ calls[c].path \in {"handoff", "synthesis"}
                       => (/\ resumed_vm_dict' = resumed_vm_dict
                           /\ (calls[c].pc # "done" /\ calls'[c].pc = "done")
                              => /\ synthesized_vm_dics'[calls[c].vm] # None
                                 /\ synthesized_vm_dics'[calls[c].vm]
                                        # synthesized_vm_dics[calls[c].vm])
                    /\ calls[c].path = "base"
                       => (/\ synthesized_vm_dics' = synthesized_vm_dics
                           /\ (calls[c].pc # "done" /\ calls'[c].pc = "done")
                              => /\ resumed_vm_dict'[calls[c].vm] # None
                                 /\ resumed_vm_dict'[calls[c].vm]
                                        # resumed_vm_dict[calls[c].vm])
                    /\ calls[c].path = "plain"
                       => UNCHANGED <<resumed_vm_dict, synthesized_vm_dics,
                                      sessions>>]_vars

\* a spawn with both overlay_url and handoff_info has registered the VM it
\* received by handoff
C38_Witness ==
    /\ calls[1].op = "spawn"
    /\ calls[1].overlay_url
    /\ calls[1].handoff_info
    /\ calls[1].path = "handoff"
    /\ calls[1].pc = "done"
    /\ synthesized_vm_dics["vm1"] # None
    /\ resumed_vm_dict["vm1"] = None

\* the tunnels that were given a port and have not listened on it yet
AwaitingListen == {t \in Forwardings : ports.objects[t].pc = "started"}

\* C39: from the bind to port 0 until its thread listens, the port of a
\* tunnel is bound by no other socket and given to no other tunnel, two
\* tunnels that hold a port at the same time hold distinct ports, and no
\* tunnel's listen fails.
C39_PortReserved ==
    /\ \A t \in AwaitingListen :
           ports.bound[ports.objects[t].source_port] \subseteq {Sock("sock", t)}
    /\ \A t1 \in AwaitingListen, t2 \in Forwardings :
           (t1 # t2 /\ ports.objects[t2].pc \in {"started", "listening"})
               => ports.objects[t1].source_port # ports.objects[t2].source_port
    /\ \A t \in Forwardings : ports.objects[t].pc # "failed"

====
